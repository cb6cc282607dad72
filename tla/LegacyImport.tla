---------------------------- MODULE LegacyImport ----------------------------
(***************************************************************************)
(* The one-off import of the legacy system: a command per stage, each one  *)
(* transaction over the records of an export, followed by a report file    *)
(* that is written after the commit.  A stage skips what its mapping table *)
(* already knows and what it cannot resolve through the tables of earlier  *)
(* stages; nothing but the operator's script orders the stages.  The last  *)
(* command validates the result, after which the application may be        *)
(* opened on the database, and stages may still be run again.  Of the      *)
(* application there is what writes rows the import reads: its leases and  *)
(* their dates, and the rooms' statuses, which follow the leases in calls  *)
(* of their own that run after the commit and may be lost.                 *)
(***************************************************************************)
EXTENDS Naturals, FiniteSets

CONSTANTS
    Estates, Rooms, Rents, Readings, Schedules,  \* legacy ids, one set per export file
    Tenants,    \* legacy ids of tenants, compared as numbers
    Owners,     \* legacy uids of property owners
    Author,     \* the uid of the system user that imported journals are by
    OwnerOf,    \* the owner of an estate
    EstateOf,   \* the estate of a room or schedule
    RoomOf,     \* the room of a lease, reading or schedule; None for some schedules
    LinkedTenants,  \* the tenants linked to a lease, if any
    StartDate, EndDate,     \* the dates of a lease in the export, days as numbers
    MonthStart, MonthEnd,   \* the month of a reading
    Enabled,    \* leases the export marks as enabled
    Stopped,    \* leases with a stop payload: moved out and settled
    Periods,    \* rent billing periods of each lease
    Bad,        \* records that do not normalise: missing or invalid fields
    Jobs,       \* slots of concurrent commands
    AppLeases,  \* ids the application may give to leases of its own (a bound)
    Days,       \* dates the application may give to leases (a bound)
    None

(* Readings are numbered by room and month: a second reading of a month    *)
(* finds the mapping of the first.  The first of a room makes no bill.     *)
Exported == Estates \cup Rooms \cup Tenants \cup Rents \cup Readings \cup Schedules

(* Users that stand for people of the old system, one for each uid.        *)
Placeholders == Owners \cup {Author}

Records == Exported \cup Placeholders
RentBills == Rents \X Periods
Leases == Rents \cup AppLeases
Marks == {"occupied", "vacant"} \X Leases
Intents == {"maintenance", "delete"} \X (Rooms \cup Estates)

Stages == {"properties", "rooms", "tenants", "leases", "room_status", "bills", "journal"}

(* What plan.go says of the stages.                                        *)
DependsOn(k) ==
    CASE k = "rooms" -> {"properties"}
      [] k = "leases" -> {"rooms", "tenants"}
      [] k = "room_status" -> {"leases"}
      [] k = "bills" -> {"leases", "room_status"}
      [] k = "journal" -> {"properties", "rooms"}
      [] OTHER -> {}

ASSUME TenantAssumption == Tenants \subseteq Nat
ASSUME KindAssumption ==
    /\ Rooms \cap (Estates \cup Tenants \cup Rents \cup Readings \cup Schedules \cup Placeholders) = {}
    /\ Rents \cap (Estates \cup Tenants \cup Readings \cup Schedules \cup Placeholders) = {}
    /\ Readings \cap (Estates \cup Tenants \cup Schedules \cup Placeholders) = {}
    /\ Estates \cap (Tenants \cup Schedules \cup Placeholders) = {}
    /\ Tenants \cap (Schedules \cup Placeholders) = {}
ASSUME SourceAssumption ==
    /\ OwnerOf \in [Estates -> Owners]
    /\ EstateOf \in [Rooms \cup Schedules -> Estates]
    /\ RoomOf \in [Rents \cup Readings \cup Schedules -> Rooms \cup {None}]
    /\ \A x \in Rents \cup Readings : RoomOf[x] # None
    /\ LinkedTenants \in [Rents -> SUBSET Tenants]
    /\ StartDate \in [Rents -> Nat] /\ EndDate \in [Rents -> Nat]
    /\ MonthStart \in [Readings -> Nat] /\ MonthEnd \in [Readings -> Nat]
    (* some lease of the export starts last *)
    /\ Rents # {} => \E n \in Rents : \A o \in Rents : StartDate[o] <= StartDate[n]
    /\ Enabled \subseteq Rents /\ Stopped \subseteq Rents
ASSUME ApplicationAssumption == Days \subseteq Nat /\ AppLeases \cap Rents = {}

VARIABLES
    mapped,    \* records with a row in a mapping table, and uids of users
    copies,    \* copies[x]: target rows inserted for record x
    active,    \* leases with status active
    status,    \* status[r]: the imported room's status
    priced,    \* estates with a known electricity price, now or in the export
    deleted,   \* imported properties and rooms the application has soft-deleted
    hung,      \* hung[d]: the lease the bill of reading d belongs to
    rent,      \* rent[b]: rent bills generated for a lease and period
    let,       \* let[l]: the room of lease l of the application, once it is created
    span,      \* span[n]: the dates of lease n as they are now
    ended,     \* leases the application has ended
    owed,      \* calls that set a room's status after a commit, still to run
    seen,      \* unlocked reads of a status that some request may still act on
    job,       \* job[j]: the command running in slot j
    reported,  \* stages with a report file
    signed,    \* the last validation passed
    opened,    \* the application serves the database
    fresh,     \* history: stages run in order, nothing changed under them since
    overlap,   \* history: rent bills planned by two runs at once
    late       \* history: readings imported after the application had let their room

(* What only the application writes.                                       *)
requests == <<let, span, ended, owed, seen>>

data == <<mapped, copies, active, status, priced, deleted, hung, rent, requests>>

vars == <<data, job, reported, signed, opened, fresh, overlap, late>>

(* The open transaction: what it is going to write, the prices it has      *)
(* read, and whether what it depends on was up to date when it began.      *)
Running ==
    [stage : Stages, phase : {"running"}, rows : SUBSET Records,
     bills : SUBSET (Readings \X Leases), rents : SUBSET RentBills,
     prices : SUBSET Estates, inOrder : BOOLEAN]
Committed == [stage : Stages, phase : {"committed"}]

RoomStatus == {"vacant", "occupied", "maintenance"}
Dates == [from : Nat, to : Nat]

ASSUME NoneAssumption == None \notin Running \cup Committed \cup Leases \cup Rooms \cup RoomStatus

TypeOK ==
    /\ mapped \subseteq Records
    /\ copies \in [Records -> Nat]
    /\ active \subseteq Leases
    /\ status \in [Rooms -> RoomStatus \cup {None}]
    /\ priced \subseteq Estates
    /\ deleted \subseteq Estates \cup Rooms
    /\ hung \in [Readings -> Leases \cup {None}]
    /\ \A r \in Rooms : (status[r] # None) = (r \in mapped)
    /\ \A d \in Readings : (hung[d] # None) = (d \in mapped)
    /\ rent \in [RentBills -> Nat]
    /\ let \in [AppLeases -> Rooms \cup {None}]
    /\ span \in [Leases -> Dates]
    /\ ended \subseteq Leases /\ owed \subseteq Marks /\ seen \subseteq Intents
    /\ job \in [Jobs -> Running \cup Committed \cup {None}]
    /\ reported \subseteq Stages
    /\ signed \in BOOLEAN
    /\ opened \in {"no", "in_order", "early"}
    /\ fresh \subseteq Stages /\ overlap \subseteq RentBills /\ late \subseteq Readings

Init ==
    /\ mapped = {} /\ active = {} /\ deleted = {}
    /\ let = [l \in AppLeases |-> None]
    /\ span = [n \in Leases |-> IF n \in Rents THEN [from |-> StartDate[n], to |-> EndDate[n]]
                               ELSE [from |-> 0, to |-> 0]]
    /\ ended = {} /\ owed = {} /\ seen = {}
    /\ copies = [x \in Records |-> 0]
    /\ status = [r \in Rooms |-> None]
    /\ priced \in SUBSET Estates
    /\ hung = [d \in Readings |-> None]
    /\ rent = [b \in RentBills |-> 0]
    /\ job = [j \in Jobs |-> None]
    /\ reported = {} /\ signed = FALSE /\ opened = "no"
    /\ fresh = {} /\ overlap = {} /\ late = {}

-----------------------------------------------------------------------------
(* What a stage finds to import: not mapped, and resolvable through the    *)
(* mapping tables of the stages before.                                    *)

Unmapped(S) == {x \in S : x \notin mapped}

(* Properties, tenants, and the room of a schedule are looked up in their  *)
(* mapping tables only; the room of a lease must not be deleted, and that  *)
(* of a reading neither, nor its property.                                 *)
PropertyFound(e) == e \in mapped
TenantFound(t) == t \in mapped
RoomFound(r) == r \in mapped
Live(x) == x \in mapped /\ x \notin deleted
RoomWithProperty(r) == Live(r) /\ EstateOf[r] \notin deleted

NormalProperty(e) == e \notin Bad
NormalRoom(r) == r \notin Bad /\ PropertyFound(EstateOf[r])
NormalTenant(t) == t \notin Bad

(* The primary tenant is the one with the smallest legacy id.              *)
Primary(n) == CHOOSE t \in LinkedTenants[n] : \A u \in LinkedTenants[n] : t <= u

NormalLease(n) ==
    /\ n \notin Bad
    /\ Live(RoomOf[n])
    /\ LinkedTenants[n] # {} /\ TenantFound(Primary(n))

(* deriveLegacyLeaseStatus: terminated, active or expired.                 *)
ActiveLike(n) == n \in Enabled \ Stopped

(* The rows of leases: nobody deletes one.  The latest of a room for a     *)
(* month is chosen among all of them, with the dates they have now.        *)
LeaseRows == (Rents \cap mapped) \cup {l \in AppLeases : let[l] # None}
RoomOfLease(n) == IF n \in Rents THEN RoomOf[n] ELSE let[n]

Applicable(d) ==
    {n \in LeaseRows : /\ RoomOfLease(n) = RoomOf[d]
                       /\ span[n].from <= MonthEnd[d] /\ span[n].to >= MonthStart[d]}
(* Mutation: no order among the leases that cover the month.               *)
AnyFor(n, d) == n \in Applicable(d)
LatestFor(n, d) ==
    n \in Applicable(d) /\ \A o \in Applicable(d) : span[o].from <= span[n].from

(* Bad among the readings: the usage since the last one is negative.       *)
NormalBill(d) ==
    /\ d \notin Bad
    /\ RoomWithProperty(RoomOf[d]) /\ EstateOf[RoomOf[d]] \in priced
    /\ \E n \in Leases : LatestFor(n, d)

NormalSchedule(s) ==
    /\ s \notin Bad
    /\ PropertyFound(EstateOf[s])
    /\ RoomOf[s] # None => RoomFound(RoomOf[s])

MigrateProperties == {e \in Unmapped(Estates) : NormalProperty(e)}
MigrateRooms == {r \in Unmapped(Rooms) : NormalRoom(r)}
MigrateTenants == {t \in Unmapped(Tenants) : NormalTenant(t)}
MigrateLeases == {n \in Unmapped(Rents) : NormalLease(n)}
MigrateBills == {d \in Unmapped(Readings) : NormalBill(d)}
MigrateJournal == {s \in Unmapped(Schedules) : NormalSchedule(s)}

(* A user is made for an owner the first time it is needed, and for the    *)
(* author whether or not there is a journal to import.                     *)
PlaceholderOwners == Unmapped({OwnerOf[e] : e \in MigrateProperties})
PlaceholderAuthor == Unmapped({Author})

Rows(k) ==
    CASE k = "properties" -> MigrateProperties \cup PlaceholderOwners
      [] k = "rooms" -> MigrateRooms
      [] k = "tenants" -> MigrateTenants
      [] k = "leases" -> MigrateLeases
      [] k = "bills" -> MigrateBills
      [] k = "journal" -> MigrateJournal \cup PlaceholderAuthor
      [] OTHER -> {}

RentBillMissing(b) == rent[b] = 0

(* Rent bills have no mapping table: the bill itself is looked for.        *)
MissingRentBills == {b \in RentBills : b[1] \in active /\ RentBillMissing(b)}

Begin(j, k) ==
    /\ job[j] = None
    /\ job' = [job EXCEPT ![j] =
           [stage |-> k, phase |-> "running", rows |-> Rows(k),
            bills |-> {b \in (Rows(k) \cap Readings) \X Leases : LatestFor(b[2], b[1])},
            rents |-> IF k = "bills" THEN MissingRentBills ELSE {},
            prices |-> priced, inOrder |-> DependsOn(k) \subseteq fresh]]
    /\ UNCHANGED <<data, reported, signed, opened, fresh, overlap, late>>

-----------------------------------------------------------------------------
IsRunning(j) == job[j] # None /\ job[j].phase = "running"

(* Stages whose results may be out of date once k has imported more.       *)
After(k) ==
    CASE k = "properties" -> {"rooms", "leases", "room_status", "bills", "journal"}
      [] k = "rooms" -> {"leases", "room_status", "bills", "journal"}
      [] k = "tenants" -> {"leases", "room_status", "bills"}
      [] k = "leases" -> {"room_status", "bills"}
      [] k = "room_status" -> {"bills"}
      [] OTHER -> {}

InOrder(j) == job[j].inOrder /\ DependsOn(job[j].stage) \subseteq fresh

Finished(j) ==
    /\ job' = [job EXCEPT ![j] = [stage |-> @.stage, phase |-> "committed"]]
    /\ fresh' = (IF job[j].rows = {} THEN fresh ELSE fresh \ After(job[j].stage))
                \cup (IF InOrder(j) /\ job[j].prices = priced THEN {job[j].stage} ELSE {})

MappingsOf(S) == S

(* Mutation: the mapping tables have no key.                               *)
NoConflictCheck(S) == TRUE
(* The legacy id is the primary key of its mapping table, the uid of a     *)
(* user is unique.                                                         *)
NoConflict(S) == S \cap mapped = {}

(* Rows and mappings are inserted one by one and committed together.       *)
Import(j, k) ==
    /\ IsRunning(j) /\ job[j].stage = k /\ NoConflict(job[j].rows)
    /\ mapped' = mapped \cup MappingsOf(job[j].rows)
    /\ copies' = [x \in Records |-> IF x \in job[j].rows THEN copies[x] + 1 ELSE copies[x]]
    /\ Finished(j)
    /\ UNCHANGED <<priced, deleted, requests, reported, signed, opened>>

ImportProperties(j) ==
    Import(j, "properties") /\ UNCHANGED <<active, status, hung, rent, overlap, late>>

ImportRooms(j) ==
    /\ Import(j, "rooms")
    /\ status' = [r \in Rooms |-> IF r \in job[j].rows THEN "vacant" ELSE status[r]]
    /\ UNCHANGED <<active, hung, rent, overlap, late>>

ImportTenants(j) ==
    Import(j, "tenants") /\ UNCHANGED <<active, status, hung, rent, overlap, late>>

ImportLeases(j) ==
    /\ Import(j, "leases")
    /\ active' = active \cup {n \in job[j].rows \cap Rents : ActiveLike(n)}
    /\ UNCHANGED <<status, hung, rent, overlap, late>>

(* The application has let the room or ended a lease of it.                *)
Touched(r) == \E n \in ended \cup {l \in AppLeases : let[l] # None} : RoomOfLease(n) = r

ImportBills(j) ==
    /\ Import(j, "bills")
    /\ hung' = [d \in Readings |->
           IF d \in job[j].rows THEN (CHOOSE b \in job[j].bills : b[1] = d)[2] ELSE hung[d]]
    /\ rent' = [b \in RentBills |-> IF b \in job[j].rents THEN rent[b] + 1 ELSE rent[b]]
    /\ overlap' = overlap \cup {b \in job[j].rents :
           \E i \in Jobs \ {j} : IsRunning(i) /\ b \in job[i].rents}
    /\ late' = late \cup {d \in job[j].rows \cap Readings : Touched(RoomOf[d])}
    /\ UNCHANGED <<active, status>>

(* Also the repair requests among them: their rooms' statuses stay.        *)
ImportJournal(j) ==
    Import(j, "journal") /\ UNCHANGED <<active, status, hung, rent, overlap, late>>

(* Rooms of active leases, imported or not.                                *)
ActiveRooms == {RoomOfLease(n) : n \in active}

(* Two updates: a room in maintenance without a lease stays in it.         *)
Reconciled(r) ==
    IF r \in ActiveRooms THEN "occupied"
    ELSE IF status[r] = "occupied" THEN "vacant" ELSE status[r]

(* The verification after them: as many rooms are occupied as there are    *)
(* rooms of active leases, which fails when one of the latter is deleted,  *)
(* and no room disagrees with its leases.                                  *)
OccupiedRooms == {r \in Rooms : Live(r) /\ status'[r] = "occupied"}
ImpossibleRooms == {r \in Rooms : Live(r) /\ (status'[r] = "occupied") # (r \in ActiveRooms)}

ReconcileRoomStatus(j) ==
    /\ IsRunning(j) /\ job[j].stage = "room_status"
    /\ status' = [r \in Rooms |-> IF Live(r) THEN Reconciled(r) ELSE status[r]]
    /\ Cardinality(OccupiedRooms) = Cardinality(ActiveRooms)
    /\ ImpossibleRooms = {}
    /\ Finished(j)
    /\ UNCHANGED <<mapped, copies, active, priced, deleted, hung, rent, requests, reported,
                   signed, opened, overlap, late>>

WriteReport(j) ==
    /\ job[j] # None /\ job[j].phase = "committed"
    /\ reported' = reported \cup {job[j].stage}
    /\ job' = [job EXCEPT ![j] = None]
    /\ UNCHANGED <<data, signed, opened, fresh, overlap, late>>

(* The command fails or is killed: the transaction rolls back, or it has   *)
(* committed and its report is not written.                                *)
Fail(j) ==
    /\ job[j] # None
    /\ job' = [job EXCEPT ![j] = None]
    /\ UNCHANGED <<data, reported, signed, opened, fresh, overlap, late>>

-----------------------------------------------------------------------------
(* Validation: mappings point at live rows, live rows have live parents,   *)
(* and every stage has left a report.                                      *)

TargetsLive == mapped \cap deleted = {}

(* A live row's references are there at all.                               *)
RequiredFields ==
    /\ \A e \in Estates : Live(e) => OwnerOf[e] \in mapped
    /\ \A r \in Rooms : Live(r) => status[r] # None
    /\ \A d \in Readings \cap mapped : hung[d] # None

ParentsLive ==
    /\ \A r \in Rooms \cap mapped : Live(EstateOf[r])
    /\ \A n \in Rents \cap mapped :
           Primary(n) \in mapped /\ Live(RoomOf[n]) /\ Live(EstateOf[RoomOf[n]])
    /\ \A d \in Readings \cap mapped : hung[d] \in LeaseRows /\ Live(RoomOf[d])
    /\ \A s \in Schedules \cap mapped :
           Author \in mapped /\ Live(EstateOf[s]) /\ (RoomOf[s] # None => Live(RoomOf[s]))

(* Mutation: a missing report is only mentioned.                           *)
ReportsOptional == TRUE
ReportsWritten == reported = Stages

Verified == TargetsLive /\ RequiredFields /\ ParentsLive /\ ReportsWritten

(* Its queries run one after the other outside of a transaction.  They are *)
(* one step here, which only matters once the application changes rows:    *)
(* until it is opened stages add rows, and none is changed or removed.     *)
ValidateMigration ==
    /\ opened = "no"
    /\ signed' = Verified
    /\ UNCHANGED <<data, job, reported, opened, fresh, overlap, late>>

(* The operator's decision: the result of the validation is its evidence.  *)
Cutover ==
    /\ opened = "no" /\ signed
    /\ opened' = IF "room_status" \in fresh THEN "in_order" ELSE "early"
    /\ UNCHANGED <<data, job, reported, signed, fresh, overlap, late>>

-----------------------------------------------------------------------------
(* The application, as far as it meets the import: any number of requests. *)

Serving ==
    /\ opened # "no"
    /\ UNCHANGED <<mapped, copies, hung, rent, job, reported, signed, opened, overlap, late>>
Operating == Serving /\ UNCHANGED <<fresh, priced>>

(* The lease is committed under a lock on the room; its status follows.    *)
CreateLease(l, r, dates) ==
    /\ Operating /\ let[l] = None /\ dates.from <= dates.to
    /\ RoomWithProperty(r) /\ status[r] = "vacant"
    /\ let' = [let EXCEPT ![l] = r]
    /\ span' = [span EXCEPT ![l] = dates]
    /\ active' = active \cup {l}
    /\ owed' = owed \cup {<<"occupied", l>>}
    /\ UNCHANGED <<status, deleted, ended, seen>>

(* Termination, checkout and forced termination take active and expired    *)
(* leases, imported ones too, and move the end date.                       *)
EndLease(n, day) ==
    /\ Operating /\ n \in LeaseRows \ (Stopped \cup ended)
    /\ active' = active \ {n}
    /\ ended' = ended \cup {n}
    /\ span' = [span EXCEPT ![n].to = day]
    /\ owed' = owed \cup {<<"vacant", n>>}
    /\ UNCHANGED <<status, deleted, let, seen>>

ExpireLease(n) ==
    /\ Operating /\ n \in active
    /\ active' = active \ {n}
    /\ UNCHANGED <<status, deleted, requests>>

(* The subscriber's statement, which looks at no lease; or it is lost.     *)
MarkRoom(m) ==
    /\ Operating /\ m \in owed
    /\ LET r == RoomOfLease(m[2])
       IN  status' = IF Live(r) THEN [status EXCEPT ![r] = m[1]] ELSE status
    /\ owed' = owed \ {m}
    /\ UNCHANGED <<active, deleted, let, span, ended, seen>>

LoseMark(m) ==
    /\ Operating /\ m \in owed
    /\ owed' = owed \ {m}
    /\ UNCHANGED <<active, status, deleted, let, span, ended, seen>>

(* Maintenance and deletion read a status without a lock and write later,  *)
(* whatever it has become; any number of requests may have read the same.  *)
Intend(op, x) ==
    /\ Operating /\ Live(x)
    /\ seen' = seen \cup {<<op, x>>}
    /\ UNCHANGED <<active, status, deleted, let, span, ended, owed>>

ReadRoom(op, r) == status[r] = "vacant" /\ Intend(op, r)

(* Mutation: a property is deletable whatever its rooms' statuses.         *)
ReadOccupiedRoomsUnchecked(e) == Intend("delete", e)
ReadOccupiedRooms(e) ==
    /\ \A r \in Rooms : EstateOf[r] = e /\ Live(r) => status[r] # "occupied"
    /\ Intend("delete", e)

(* With a repair request, which brings the room back when it is finished.  *)
SetRoomMaintenance(r) ==
    /\ Operating /\ <<"maintenance", r>> \in seen /\ Live(r)
    /\ status' = [status EXCEPT ![r] = "maintenance"]
    /\ UNCHANGED <<active, deleted, requests>>

CompleteRepair(r) ==
    /\ Operating /\ Live(r) /\ status[r] = "maintenance"
    /\ status' = [status EXCEPT ![r] = "vacant"]
    /\ UNCHANGED <<active, deleted, requests>>

Delete(x) ==
    /\ Operating /\ <<"delete", x>> \in seen /\ Live(x)
    /\ deleted' = deleted \cup {x}
    /\ UNCHANGED <<active, status, requests>>

DeleteRoom(r) == Delete(r)
DeleteProperty(e) == Delete(e)

(* A known price lets bills be imported that were skipped.  The property's *)
(* version changes, which a deletion that has read the old one compares.   *)
SetUnitPrice(e) ==
    /\ Serving /\ Live(e) /\ e \notin priced
    /\ priced' = priced \cup {e}
    /\ fresh' = fresh \ {"bills"}
    /\ seen' = seen \ {<<"delete", e>>}
    /\ UNCHANGED <<active, status, deleted, let, span, ended, owed>>

-----------------------------------------------------------------------------
Command(j) ==
    \/ \E k \in Stages : Begin(j, k)
    \/ ImportProperties(j) \/ ImportRooms(j) \/ ImportTenants(j) \/ ImportLeases(j)
    \/ ImportBills(j) \/ ImportJournal(j) \/ ReconcileRoomStatus(j)
    \/ WriteReport(j) \/ Fail(j)

Application ==
    \/ \E l \in AppLeases, r \in Rooms, dates \in [from : Days, to : Days] :
           CreateLease(l, r, dates)
    \/ \E n \in Leases : ExpireLease(n) \/ \E day \in Days : EndLease(n, day)
    \/ \E m \in owed : MarkRoom(m) \/ LoseMark(m)
    \/ \E r \in Rooms :
           \/ ReadRoom("maintenance", r) \/ ReadRoom("delete", r)
           \/ SetRoomMaintenance(r) \/ CompleteRepair(r) \/ DeleteRoom(r)
    \/ \E e \in Estates : ReadOccupiedRooms(e) \/ DeleteProperty(e) \/ SetUnitPrice(e)

Next == (\E j \in Jobs : Command(j)) \/ ValidateMigration \/ Cutover \/ Application

Spec == Init /\ [][Next]_vars

-----------------------------------------------------------------------------
(* Properties.                                                             *)

(* No record is imported twice, and a mapping and its row are committed    *)
(* together: through reruns, failures at any point, two runs of a stage at *)
(* once, and rows the application has deleted since.                       *)
ImportedOnce == \A x \in Records : copies[x] = IF x \in mapped THEN 1 ELSE 0

(* A record the export says enough about, whose parents are not deleted.   *)
RoomSound(r) == {r, EstateOf[r]} \cap (Bad \cup deleted) = {}
Covers(n, d) ==
    RoomOf[n] = RoomOf[d] /\ StartDate[n] <= MonthEnd[d] /\ EndDate[n] >= MonthStart[d]
RentSound(n) ==
    n \notin Bad /\ RoomSound(RoomOf[n]) /\ LinkedTenants[n] # {} /\ Primary(n) \notin Bad
Sound(k) ==
    CASE k = "properties" -> Estates \ (Bad \cup deleted)
      [] k = "rooms" -> {r \in Rooms : RoomSound(r)}
      [] k = "tenants" -> Tenants \ Bad
      [] k = "leases" -> {n \in Rents : RentSound(n)}
      [] k = "bills" -> {d \in Readings \ Bad :
             /\ EstateOf[RoomOf[d]] \in priced /\ ~Touched(RoomOf[d])
             /\ \E n \in Rents : RentSound(n) /\ Covers(n, d)}
      [] k = "journal" -> {s \in Schedules \ Bad :
             EstateOf[s] \notin Bad \cup deleted /\ (RoomOf[s] # None => RoomSound(RoomOf[s]))}
      [] OTHER -> {}

(* The dependencies of plan.go suffice: a stage that was run after them    *)
(* has imported all it can, however often and in whatever order stages     *)
(* were run before, and running it again would import nothing.  A reading  *)
(* of a room that the application has let may have lost its lease.         *)
ImportComplete == \A k \in fresh : Sound(k) \subseteq mapped

(* The latest lease that the export has for the month of a reading.        *)
LatestInExport(n, d) ==
    /\ n \in Rents \cap mapped /\ Covers(n, d)
    /\ \A o \in Rents \cap mapped : Covers(o, d) => StartDate[o] <= StartDate[n]

(* An imported bill belongs to the latest lease of the export whose dates  *)
(* cover its month, whenever the leases and the bills were imported, and   *)
(* whatever becomes of the leases.  A reading that is imported after the   *)
(* application has let its room, or ended a lease of it, is exempt: the    *)
(* query also finds the application's leases, and the dates it has moved.  *)
BillOnCoveringLease == \A d \in (Readings \cap mapped) \ late : LatestInExport(hung[d], d)

(* After room-status has been run in order, a live room is occupied if and *)
(* only if it has an active lease, until the application is opened.        *)
RoomsReconciled ==
    "room_status" \in fresh /\ opened = "no" =>
        \A r \in Rooms : Live(r) => (status[r] = "occupied") = (r \in ActiveRooms)

(* If the application was opened on a database whose rooms were reconciled *)
(* after its leases were imported, it keeps the room of an active imported *)
(* lease: occupied, not deleted, nor its property, and not let to anybody  *)
(* else, through calls that come late, are lost or act on an old status.   *)
(* Ending another lease of the room, an expired one, vacates it: that is   *)
(* the exemption.                                                          *)
Vacated(r) == \E n \in ended : RoomOfLease(n) = r
ImportedRoomsHeld ==
    opened = "in_order" =>
        \A n \in active \cap Rents :
            \/ Vacated(RoomOf[n])
            \/ /\ RoomWithProperty(RoomOf[n]) /\ status[RoomOf[n]] = "occupied"
               /\ \A l \in AppLeases : let[l] # RoomOf[n]

(* Generating rent bills again adds none; only two runs at once may.       *)
RentBilledOnce == \A b \in RentBills \ overlap : rent[b] <= 1

(* Running a stage again, after a failure or by mistake, repeats nothing:  *)
(* neither records, which a mapping guards, nor rent bills, which only a   *)
(* look at the bills does.                                                 *)
NothingRepeated == ImportedOnce /\ RentBilledOnce

(* A stage run after those it depends on imports everything, and each bill *)
(* to the lease it belongs to.                                             *)
ImportFaithful == ImportComplete /\ BillOnCoveringLease

(* The rooms agree with the imported leases from the room-status stage on, *)
(* and once the application serves they are kept for those leases.         *)
RoomsFollowLeases == RoomsReconciled /\ ImportedRoomsHeld

(* A validation passes only after every stage has committed, and then the  *)
(* parents of everything imported are imported and live.                   *)
SignOffSound ==
    [][~signed /\ signed' =>
           /\ \A d \in Readings \cap mapped :
                  RentSound(hung[d]) /\ {RoomOf[d], hung[d]} \subseteq mapped \ deleted
           /\ Sound("properties") \cup Sound("tenants") \subseteq mapped]_vars
=============================================================================
