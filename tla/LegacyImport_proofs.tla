------------------------- MODULE LegacyImport_proofs -------------------------
(* Proofs about LegacyImport, for every export and number of commands.     *)
EXTENDS LegacyImport, WellFoundedInduction, TLAPS

(* What the open transaction of a command has read stays good enough for   *)
(* its commit: a reading it imports has a lease, and a rent bill it        *)
(* generates is missing unless another run has made it.  Only their own    *)
(* stages import rooms and readings.                                       *)
Plan(j) ==
    /\ \A d \in job[j].rows \cap Readings : \E b \in job[j].bills : b[1] = d
    /\ \A b \in job[j].rents : rent[b] = 0 \/ b \in overlap
    /\ job[j].stage # "rooms" => job[j].rows \cap Rooms = {}
    /\ job[j].stage # "bills" => job[j].rows \cap Readings = {}

IInv ==
    /\ TypeOK /\ ImportedOnce /\ RentBilledOnce
    /\ \A j \in Jobs : IsRunning(j) => Plan(j)

(* A stage imports records of its own file.                                *)
LEMMA RowsOfStage ==
    ASSUME NEW k \in Stages
    PROVE  /\ Rows(k) \subseteq Records
           /\ Rows(k) \cap Rents \subseteq MigrateLeases
           /\ Rows(k) \cap Readings \subseteq (IF k = "bills" THEN MigrateBills ELSE {})
           /\ Rows(k) \cap Rooms \subseteq (IF k = "rooms" THEN MigrateRooms ELSE {})
<1>1. CASE k = "properties"
  BY <1>1, KindAssumption, SourceAssumption DEF Rows, MigrateProperties, PlaceholderOwners, Unmapped, Records, Exported,
     Placeholders
<1>2. CASE k = "rooms"
  BY <1>2, KindAssumption DEF Rows, MigrateRooms, Unmapped, Records, Exported
<1>3. CASE k = "tenants"
  BY <1>3, KindAssumption DEF Rows, MigrateTenants, Unmapped, Records, Exported
<1>4. CASE k = "leases"
  BY <1>4, KindAssumption DEF Rows, MigrateLeases, Unmapped, Records, Exported
<1>5. CASE k = "room_status"
  BY <1>5 DEF Rows
<1>6. CASE k = "bills"
  BY <1>6, KindAssumption DEF Rows, MigrateBills, Unmapped, Records, Exported
<1>7. CASE k = "journal"
  BY <1>7, KindAssumption DEF Rows, MigrateJournal, PlaceholderAuthor, Unmapped, Records, Exported,
     Placeholders
<1> QED
  BY <1>1, <1>2, <1>3, <1>4, <1>5, <1>6, <1>7 DEF Stages

LEMMA JobType ==
    ASSUME TypeOK, NEW j \in Jobs, IsRunning(j)
    PROVE  /\ job[j] \in Running
           /\ job[j].stage \in Stages /\ job[j].rows \in SUBSET Records
           /\ job[j].bills \in SUBSET (Readings \X Leases)
           /\ job[j].rents \in SUBSET RentBills
           /\ job[j].prices \in SUBSET Estates /\ job[j].inOrder \in BOOLEAN
<1>1. job[j] \in Running
  BY DEF TypeOK, IsRunning, Committed
<1> QED
  BY <1>1 DEF Running

(***************************************************************************)
(* A command begins: what it plans holds at that moment.                   *)
(***************************************************************************)
LEMMA PlanType ==
    ASSUME IInv, NEW j \in Jobs, NEW k \in Stages, Begin(j, k)
    PROVE  /\ job' \in [Jobs -> Running \cup Committed \cup {None}]
           /\ \A i \in Jobs : IsRunning(i)' => Plan(i)'
<1> DEFINE bills == {b \in Readings \X Leases : b[1] \in Rows(k) /\ LatestFor(b[2], b[1])}
<1> DEFINE rents == IF k = "bills" THEN MissingRentBills ELSE {}
<1> DEFINE ordered == DependsOn(k) \subseteq fresh
<1>1. PICK plan : /\ plan = [stage |-> k, phase |-> "running", rows |-> Rows(k),
                             bills |-> bills, rents |-> rents, prices |-> priced,
                             inOrder |-> ordered]
                  /\ job' = [job EXCEPT ![j] = plan]
  BY DEF Begin
<1>2. plan \in Running
  <2>1. Rows(k) \in SUBSET Records /\ ordered \in BOOLEAN
    BY RowsOfStage
  <2>3. priced \in SUBSET Estates
    BY DEF IInv, TypeOK
  <2>2. bills \in SUBSET (Readings \X Leases) /\ rents \in SUBSET RentBills
    BY DEF MissingRentBills
  <2> HIDE DEF bills, rents, ordered
  <2> QED
    BY <1>1, <2>1, <2>2, <2>3 DEF Running
<1>3. job' \in [Jobs -> Running \cup Committed \cup {None}]
  BY <1>1, <1>2 DEF IInv, TypeOK
<1>5. ASSUME NEW d \in Rows(k) \cap Readings PROVE \E b \in bills : b[1] = d
  <2>1. d \in MigrateBills
    BY <1>5, RowsOfStage
  <2>2. PICK n \in Leases : LatestFor(n, d)
    BY <2>1 DEF MigrateBills, NormalBill
  <2>3. <<d, n>> \in bills /\ <<d, n>>[1] = d
    BY <1>5, <2>2
  <2> QED
    BY <2>3
<1>6. \A b \in rents : rent[b] = 0
  BY DEF MissingRentBills, RentBillMissing
<1>7. ASSUME NEW i \in Jobs, IsRunning(i)' PROVE Plan(i)'
  <2>0. UNCHANGED <<mapped, rent, overlap>>
    BY DEF Begin, data
  <2>1. CASE i = j
    <3>1. job'[i] = plan
      BY <1>1, <2>1 DEF IInv, TypeOK
    <3>2. plan.rows = Rows(k) /\ plan.bills = bills /\ plan.rents = rents /\ plan.stage = k
      BY <1>1
    <3>3. /\ k # "rooms" => Rows(k) \cap Rooms = {}
          /\ k # "bills" => Rows(k) \cap Readings = {}
      BY RowsOfStage
    <3> HIDE DEF bills, rents
    <3> QED
      BY <2>0, <3>1, <3>2, <3>3, <1>5, <1>6 DEF Plan
  <2>2. CASE i # j
    <3>1. job'[i] = job[i]
      BY <1>1, <2>2 DEF IInv, TypeOK
    <3>2. IsRunning(i)
      BY <1>7, <3>1 DEF IsRunning
    <3> QED
      BY <2>0, <3>1, <3>2 DEF Plan, IInv
  <2> QED
    BY <2>1, <2>2
<1> QED
  BY <1>3, <1>7

LEMMA BeginStep ==
    ASSUME IInv, NEW j \in Jobs, NEW k \in Stages, Begin(j, k)
    PROVE  IInv'
BY PlanType DEF Begin, data, requests, IInv, TypeOK, ImportedOnce, RentBilledOnce

(***************************************************************************)
(* A command commits.                                                      *)
(***************************************************************************)
LEMMA FinishedType ==
    ASSUME IInv, NEW j \in Jobs, IsRunning(j), Finished(j),
           mapped \subseteq mapped', overlap \subseteq overlap',
           \A i \in Jobs \ {j} : IsRunning(i) =>
               \A b \in job[i].rents : rent'[b] = 0 \/ b \in overlap'
    PROVE  /\ job' \in [Jobs -> Running \cup Committed \cup {None}]
           /\ fresh' \subseteq Stages
           /\ \A i \in Jobs : IsRunning(i)' => Plan(i)'
<1>1. job[j] \in Running /\ job[j].stage \in Stages
  BY JobType DEF IInv
<1>2. [stage |-> job[j].stage, phase |-> "committed"] \in Committed
  BY <1>1 DEF Committed
<1>3. job' \in [Jobs -> Running \cup Committed \cup {None}]
  BY <1>2 DEF IInv, TypeOK, Finished
<1>4. fresh' \subseteq Stages
  BY <1>1 DEF IInv, TypeOK, Finished
<1>5. ASSUME NEW i \in Jobs, IsRunning(i)' PROVE Plan(i)'
  <2>1. i # j
    BY <1>5 DEF Finished, IsRunning, IInv, TypeOK
  <2>2. job'[i] = job[i]
    BY <2>1 DEF Finished, IInv, TypeOK
  <2>3. IsRunning(i)
    BY <1>5, <2>2 DEF IsRunning
  <2> QED
    BY <2>1, <2>2, <2>3 DEF Plan, IInv
<1> QED
  BY <1>3, <1>4, <1>5

(* Importing rows keeps them and their mappings together, and leaves what  *)
(* the other commands have planned good enough.                            *)
LEMMA ImportStep ==
    ASSUME IInv, NEW j \in Jobs, NEW k \in Stages, Import(j, k),
           overlap \subseteq overlap',
           \A i \in Jobs \ {j} : IsRunning(i) =>
               \A b \in job[i].rents : rent'[b] = 0 \/ b \in overlap'
    PROVE  /\ ImportedOnce' /\ copies' \in [Records -> Nat]
           /\ mapped' \subseteq Records /\ mapped \subseteq mapped'
           /\ mapped' = mapped \cup job[j].rows
           /\ IsRunning(j) /\ Plan(j) /\ job[j].stage = k /\ job[j].rows \in SUBSET Records
           /\ job' \in [Jobs -> Running \cup Committed \cup {None}] /\ fresh' \subseteq Stages
           /\ \A i \in Jobs : IsRunning(i)' => Plan(i)'
           /\ UNCHANGED <<priced, deleted, requests, reported, signed, opened>>
<1> DEFINE rows == job[j].rows
<1>0. /\ TypeOK /\ IsRunning(j) /\ Plan(j) /\ rows \in SUBSET Records /\ job[j].stage = k
      /\ rows \cap mapped = {} /\ mapped' = mapped \cup rows
  BY JobType DEF IInv, Import, NoConflict, MappingsOf
<1>1. ImportedOnce' /\ copies' \in [Records -> Nat]
  BY <1>0 DEF IInv, TypeOK, ImportedOnce, Import
<1>2. Finished(j) /\ mapped \subseteq mapped'
  BY <1>0 DEF Import
<1>3. /\ job' \in [Jobs -> Running \cup Committed \cup {None}] /\ fresh' \subseteq Stages
      /\ \A i \in Jobs : IsRunning(i)' => Plan(i)'
  BY <1>0, <1>2, FinishedType
<1> QED
  BY <1>0, <1>1, <1>2, <1>3 DEF Import, TypeOK

(* A stage other than bills leaves the rent bills alone.                   *)
LEMMA PlansKept ==
    ASSUME IInv, NEW j \in Jobs, UNCHANGED <<rent, overlap>>
    PROVE  /\ overlap \subseteq overlap'
           /\ \A i \in Jobs \ {j} : IsRunning(i) =>
                  \A b \in job[i].rents : rent'[b] = 0 \/ b \in overlap'
BY DEF IInv, Plan

(* Imports of anything but rooms and readings.                             *)
LEMMA PlainImport ==
    ASSUME IInv, NEW j \in Jobs, NEW k \in Stages \ {"rooms", "bills"}, Import(j, k),
           active' \subseteq active \cup (job[j].rows \cap Rents),
           UNCHANGED <<status, hung, rent, overlap, late>>
    PROVE  IInv'
<1>1. job[j].rows \cap Rooms = {} /\ job[j].rows \cap Readings = {}
  BY ImportStep, PlansKept DEF Plan
<1>2. TypeOK'
  BY <1>1, ImportStep, PlansKept DEF IInv, TypeOK, requests, Leases
<1> QED
  BY <1>2, ImportStep, PlansKept DEF IInv, RentBilledOnce

LEMMA RoomsStep ==
    ASSUME IInv, NEW j \in Jobs, ImportRooms(j)
    PROVE  IInv'
<1>0. "rooms" \in Stages
  BY DEF Stages
<1>1. Import(j, "rooms") /\ UNCHANGED <<active, hung, rent, overlap, late>>
  BY DEF ImportRooms
<1>2. job[j].rows \cap Readings = {}
  BY <1>0, <1>1, ImportStep, PlansKept DEF Plan
<1>3. /\ status' \in [Rooms -> RoomStatus \cup {None}]
      /\ \A r \in Rooms : (status'[r] # None) = (r \in mapped')
  BY <1>0, <1>1, ImportStep, PlansKept, NoneAssumption DEF ImportRooms, IInv, TypeOK, RoomStatus
<1>4. TypeOK'
  BY <1>0, <1>1, <1>2, <1>3, ImportStep, PlansKept DEF IInv, TypeOK, requests
<1> QED
  BY <1>0, <1>1, <1>4, ImportStep, PlansKept DEF IInv, RentBilledOnce

LEMMA BillsStep ==
    ASSUME IInv, NEW j \in Jobs, ImportBills(j)
    PROVE  IInv'
<1> DEFINE rows == job[j].rows
<1> DEFINE rents == job[j].rents
<1>0. /\ TypeOK /\ IsRunning(j) /\ Plan(j) /\ job[j].stage = "bills"
      /\ job[j].bills \in SUBSET (Readings \X Leases) /\ rents \in SUBSET RentBills
      /\ Import(j, "bills") /\ "bills" \in Stages /\ UNCHANGED <<active, status>>
  BY JobType DEF IInv, ImportBills, Import, Stages
<1>1. rent' \in [RentBills -> Nat] /\ overlap \subseteq overlap' /\ overlap' \subseteq RentBills
  BY <1>0 DEF TypeOK, ImportBills
<1>2. ASSUME NEW i \in Jobs \ {j}, IsRunning(i), NEW b \in job[i].rents
      PROVE  rent'[b] = 0 \/ b \in overlap'
  <2>0. Plan(i) /\ b \in RentBills
    BY <1>0, <1>2, JobType DEF IInv
  <2>1. CASE b \in rents
    BY <1>2, <2>1 DEF ImportBills
  <2>2. CASE b \notin rents
    <3>1. rent'[b] = rent[b]
      BY <2>0, <2>2 DEF ImportBills
    <3>2. rent[b] = 0 \/ b \in overlap
      BY <1>2, <2>0 DEF Plan
    <3> QED
      BY <1>1, <3>1, <3>2
  <2> QED
    BY <2>1, <2>2
<1>3. /\ ImportedOnce' /\ copies' \in [Records -> Nat]
      /\ mapped' \subseteq Records /\ mapped \subseteq mapped' /\ mapped' = mapped \cup rows
      /\ rows \in SUBSET Records
      /\ job' \in [Jobs -> Running \cup Committed \cup {None}] /\ fresh' \subseteq Stages
      /\ \A i \in Jobs : IsRunning(i)' => Plan(i)'
      /\ UNCHANGED <<priced, deleted, requests, reported, signed, opened>>
  BY <1>0, <1>1, <1>2, ImportStep
<1>4. \A d \in Readings \cap rows : hung'[d] \in Leases
  <2> SUFFICES ASSUME NEW d \in Readings \cap rows PROVE hung'[d] \in Leases
    OBVIOUS
  <2>1. hung'[d] = (CHOOSE b \in job[j].bills : b[1] = d)[2]
    BY DEF ImportBills
  <2>2. (CHOOSE b \in job[j].bills : b[1] = d) \in job[j].bills
    BY <1>0 DEF Plan
  <2> QED
    BY <1>0, <2>1, <2>2
<1>5. /\ hung' \in [Readings -> Leases \cup {None}]
      /\ \A d \in Readings : (hung'[d] # None) = (d \in mapped')
  BY <1>0, <1>3, <1>4, NoneAssumption DEF TypeOK, ImportBills
<1>6. rows \cap Rooms = {}
  BY <1>0 DEF Plan
<1>7. RentBilledOnce'
  BY <1>0, <1>1 DEF IInv, RentBilledOnce, Plan, TypeOK, ImportBills
<1>8. TypeOK'
  <2>1. \A r \in Rooms : (status'[r] # None) = (r \in mapped')
    BY <1>0, <1>3, <1>6 DEF TypeOK
  <2>2. late' \subseteq Readings
    BY <1>0 DEF TypeOK, ImportBills
  <2>3. UNCHANGED <<let, span, ended, owed, seen>>
    BY <1>3 DEF requests
  <2> HIDE DEF rows, rents
  <2> QED
    BY <1>0, <1>1, <1>3, <1>5, <2>1, <2>2, <2>3 DEF TypeOK
<1> QED
  BY <1>0, <1>3, <1>7, <1>8 DEF IInv

LEMMA ReconcileStep ==
    ASSUME IInv, NEW j \in Jobs, ReconcileRoomStatus(j)
    PROVE  IInv'
<1>1. /\ job' \in [Jobs -> Running \cup Committed \cup {None}] /\ fresh' \subseteq Stages
      /\ \A i \in Jobs : IsRunning(i)' => Plan(i)'
  BY FinishedType DEF ReconcileRoomStatus, IInv, Plan
<1>2. /\ status' \in [Rooms -> RoomStatus \cup {None}]
      /\ \A r \in Rooms : (status'[r] # None) = (r \in mapped)
  BY NoneAssumption DEF ReconcileRoomStatus, IInv, TypeOK, Reconciled, Live, RoomStatus
<1> QED
  BY <1>1, <1>2 DEF ReconcileRoomStatus, requests, IInv, TypeOK, ImportedOnce, RentBilledOnce

(***************************************************************************)
(* Every other step.                                                       *)
(***************************************************************************)
LEMMA EndStep ==
    ASSUME IInv, NEW j \in Jobs, WriteReport(j) \/ Fail(j)
    PROVE  IInv'
<1>1. job' = [job EXCEPT ![j] = None] /\ UNCHANGED <<data, signed, opened, fresh, overlap, late>>
  BY DEF WriteReport, Fail
<1>2. job' \in [Jobs -> Running \cup Committed \cup {None}]
  BY <1>1 DEF IInv, TypeOK
<1>3. reported' \subseteq Stages
  <2>1. CASE WriteReport(j)
    <3>1. job[j] \in Committed
      BY <2>1 DEF WriteReport, IInv, TypeOK, Running
    <3> QED
      BY <2>1, <3>1 DEF WriteReport, Committed, IInv, TypeOK
  <2>2. CASE Fail(j)
    BY <2>2 DEF Fail, IInv, TypeOK
  <2> QED
    BY <2>1, <2>2
<1>4. ASSUME NEW i \in Jobs, IsRunning(i)' PROVE Plan(i)'
  <2>1. i # j /\ job'[i] = job[i]
    BY <1>1, <1>4 DEF IsRunning, IInv, TypeOK
  <2> QED
    BY <1>1, <1>4, <2>1 DEF IsRunning, Plan, IInv, data
<1> QED
  BY <1>1, <1>2, <1>3, <1>4
     DEF IInv, TypeOK, data, requests, ImportedOnce, RentBilledOnce

(* What a request leaves alone, and what it only adds to.                  *)
LEMMA ServingStep ==
    ASSUME IInv, Application
    PROVE  /\ opened # "no"
           /\ UNCHANGED <<mapped, copies, hung, rent, job, reported, signed, opened, overlap, late>>
           /\ deleted \subseteq deleted' /\ ended \subseteq ended' /\ priced \subseteq priced'
           /\ active' \cap Rents \subseteq active
           /\ \A l \in AppLeases : let[l] # None => let'[l] = let[l]
           /\ \A n \in Rents \ ended' : span'[n] = span[n]
           /\ \/ UNCHANGED <<fresh, priced>>
              \/ fresh' = fresh \ {"bills"} /\ priced' # priced
           /\ TypeOK'
<1> DEFINE Good ==
        /\ deleted \subseteq deleted' /\ ended \subseteq ended' /\ priced \subseteq priced'
        /\ active' \cap Rents \subseteq active
        /\ \A l \in AppLeases : let[l] # None => let'[l] = let[l]
        /\ \A n \in Rents \ ended' : span'[n] = span[n]
        /\ \/ UNCHANGED <<fresh, priced>>
           \/ fresh' = fresh \ {"bills"} /\ priced' # priced
        /\ active' \subseteq Leases /\ status' \in [Rooms -> RoomStatus \cup {None}]
        /\ \A r \in Rooms : (status'[r] # None) = (r \in mapped)
        /\ priced' \subseteq Estates /\ deleted' \subseteq Estates \cup Rooms
        /\ let' \in [AppLeases -> Rooms \cup {None}] /\ span' \in [Leases -> Dates]
        /\ ended' \subseteq Leases /\ owed' \subseteq Marks /\ seen' \subseteq Intents
        /\ fresh' \subseteq Stages
<1>0. TypeOK /\ {"vacant", "occupied", "maintenance"} = RoomStatus /\ None \notin RoomStatus
  BY NoneAssumption DEF IInv, RoomStatus
<1>1. opened # "no" /\ UNCHANGED <<mapped, copies, hung, rent, job, reported, signed, opened, overlap, late>>
  BY DEF Application, CreateLease, EndLease, ExpireLease, MarkRoom, LoseMark, Intend, ReadRoom,
         ReadOccupiedRooms, SetRoomMaintenance, CompleteRepair, Delete, DeleteRoom, DeleteProperty,
         SetUnitPrice, Operating, Serving
<1>2. ASSUME NEW l \in AppLeases, NEW r \in Rooms, NEW dates \in [from : Days, to : Days],
             CreateLease(l, r, dates)
      PROVE  Good
  <2>1. dates \in Dates /\ l \in Leases /\ l \notin Rents
    BY ApplicationAssumption DEF Dates, Leases
  <2>2. <<"occupied", l>> \in Marks
    BY <2>1 DEF Marks
  <2> QED
    BY <1>0, <1>2, <2>1, <2>2 DEF CreateLease, Operating, TypeOK
<1>3. ASSUME NEW n \in Leases, NEW day \in Days, EndLease(n, day) PROVE Good
  <2>1. [span[n] EXCEPT !.to = day] \in Dates
    BY <1>0, ApplicationAssumption DEF TypeOK, Dates
  <2>2. <<"vacant", n>> \in Marks
    BY DEF Marks
  <2>3. span' = [span EXCEPT ![n] = [span[n] EXCEPT !.to = day]] /\ ended' = ended \cup {n}
    BY <1>3 DEF EndLease
  <2>4. span' \in [Leases -> Dates]
    BY <1>0, <2>1, <2>3 DEF TypeOK
  <2>5. \A m \in Rents \ ended' : span'[m] = span[m]
    BY <1>0, <2>3 DEF TypeOK, Leases
  <2> QED
    BY <1>0, <1>3, <2>2, <2>4, <2>5 DEF EndLease, Operating, TypeOK
<1>4. ASSUME NEW n \in Leases, ExpireLease(n) PROVE Good
  BY <1>0, <1>4 DEF ExpireLease, Operating, requests, TypeOK
<1>5. ASSUME NEW m \in owed, MarkRoom(m) \/ LoseMark(m) PROVE Good
  <2>1. m[1] \in RoomStatus /\ m[1] # None
    BY <1>0, <1>5 DEF TypeOK, Marks
  <2> QED
    BY <1>0, <1>5, <2>1 DEF MarkRoom, LoseMark, Operating, TypeOK, Live
<1>6. ASSUME NEW x \in Rooms \cup Estates, NEW op \in {"maintenance", "delete"}, Intend(op, x) PROVE Good
  <2>1. <<op, x>> \in Intents
    BY DEF Intents
  <2> QED
    BY <1>0, <1>6, <2>1 DEF Intend, Operating, TypeOK
<1>7. ASSUME NEW r \in Rooms, SetRoomMaintenance(r) \/ CompleteRepair(r) PROVE Good
  BY <1>0, <1>7 DEF SetRoomMaintenance, CompleteRepair, Operating, requests, TypeOK, Live
<1>8. ASSUME NEW x \in Rooms \cup Estates, Delete(x) PROVE Good
  BY <1>0, <1>8 DEF Delete, Operating, requests, TypeOK
<1>9. ASSUME NEW e \in Estates, SetUnitPrice(e) PROVE Good
  BY <1>0, <1>9 DEF SetUnitPrice, TypeOK
<1>10. Good
  BY <1>2, <1>3, <1>4, <1>5, <1>6, <1>7, <1>8, <1>9
     DEF Application, ReadRoom, ReadOccupiedRooms, DeleteRoom, DeleteProperty
<1> QED
  BY <1>0, <1>1, <1>10 DEF TypeOK

LEMMA ApplicationStep ==
    ASSUME IInv, Application
    PROVE  IInv'
<1>1. TypeOK' /\ UNCHANGED <<mapped, copies, hung, rent, job, overlap>>
  BY ServingStep
<1>2. \A i \in Jobs : IsRunning(i)' => Plan(i)'
  BY <1>1 DEF IInv, IsRunning, Plan
<1> QED
  BY <1>1, <1>2 DEF IInv, ImportedOnce, RentBilledOnce

LEMMA IInvStep == IInv /\ [Next]_vars => IInv'
<1> SUFFICES ASSUME IInv, [Next]_vars PROVE IInv'
  OBVIOUS
<1>1. ASSUME NEW j \in Jobs, Command(j) PROVE IInv'
  <2>1. CASE ImportProperties(j) \/ ImportTenants(j) \/ ImportLeases(j) \/ ImportJournal(j)
    BY <2>1, PlainImport DEF ImportProperties, ImportTenants, ImportLeases, ImportJournal, Stages
  <2> QED
    BY <1>1, <2>1, BeginStep, RoomsStep, BillsStep, ReconcileStep, EndStep DEF Command
<1>2. CASE ValidateMigration \/ Cutover
  <2>1. UNCHANGED <<data, job, reported, fresh, overlap, late>>
    BY <1>2 DEF ValidateMigration, Cutover
  <2>2. signed' \in BOOLEAN /\ opened' \in {"no", "in_order", "early"}
    BY <1>2 DEF ValidateMigration, Verified, TargetsLive, Cutover, IInv, TypeOK
  <2> QED
    BY <2>1, <2>2 DEF IInv, TypeOK, data, requests, ImportedOnce, RentBilledOnce, IsRunning, Plan
<1>3. CASE UNCHANGED vars
  BY <1>3 DEF vars, data, requests, IInv, TypeOK, ImportedOnce, RentBilledOnce, IsRunning, Plan
<1> QED
  BY <1>1, <1>2, <1>3, ApplicationStep DEF Next

LEMMA IInvInit == Init => IInv
<1> SUFFICES ASSUME Init PROVE IInv
  OBVIOUS
<1>1. TypeOK
  <2>1. /\ copies \in [Records -> Nat] /\ rent \in [RentBills -> Nat]
        /\ hung \in [Readings -> Leases \cup {None}]
        /\ status \in [Rooms -> RoomStatus \cup {None}]
        /\ job \in [Jobs -> Running \cup Committed \cup {None}]
    BY DEF Init
  <2>2. /\ \A r \in Rooms : (status[r] # None) = (r \in mapped)
        /\ \A d \in Readings : (hung[d] # None) = (d \in mapped)
    BY DEF Init
  <2>3. \A n \in Rents : [from |-> StartDate[n], to |-> EndDate[n]] \in Dates
    BY SourceAssumption DEF Dates
  <2>4. [from |-> 0, to |-> 0] \in Dates
    BY DEF Dates
  <2>5. span \in [Leases -> Dates]
    BY <2>3, <2>4 DEF Init
  <2>6. let \in [AppLeases -> Rooms \cup {None}]
    BY DEF Init
  <2> QED
    BY <2>1, <2>2, <2>5, <2>6 DEF Init, TypeOK
<1>2. ImportedOnce /\ RentBilledOnce
  BY DEF Init, ImportedOnce, RentBilledOnce
<1>3. \A j \in Jobs : ~IsRunning(j)
  BY DEF Init, IsRunning
<1> QED
  BY <1>1, <1>2, <1>3 DEF IInv

(* Type correctness, for every export and any number of commands at once:  *)
(* a bill hangs on a lease and a room has a status if they are imported.   *)
THEOREM TypeCorrect == Spec => []TypeOK
<1>1. IInv => TypeOK
  BY DEF IInv
<1> QED
  BY <1>1, IInvInit, IInvStep, PTL DEF Spec

(* No record of any export is ever imported twice or half, whatever stages *)
(* are run, rerun, killed or run at once; and a rent bill is generated     *)
(* once per lease and period, unless two runs of the bills stage have      *)
(* overlapped.                                                             *)
THEOREM NeverRepeated == Spec => []NothingRepeated
<1>1. IInv => NothingRepeated
  BY DEF IInv, NothingRepeated
<1> QED
  BY <1>1, IInvInit, IInvStep, PTL DEF Spec

-----------------------------------------------------------------------------
(* What the export and the imported records have to do with each other.    *)

(* Rooms and leases that are imported sooner or later.                     *)
EligibleRoom(r) == {r, EstateOf[r]} \cap Bad = {}
EligibleLease(n) ==
    n \notin Bad /\ EligibleRoom(RoomOf[n]) /\ LinkedTenants[n] # {} /\ Primary(n) \notin Bad

(* What is imported, or is about to be, is valid, and its parents are in.  *)
Genuine(S) ==
    /\ S \cap (Estates \cup Tenants) \cap Bad = {}
    /\ \A r \in S \cap Rooms : r \notin Bad /\ EstateOf[r] \in mapped
    /\ \A n \in S \cap Rents :
           n \notin Bad /\ RoomOf[n] \in mapped /\ LinkedTenants[n] # {} /\ Primary(n) \in mapped

(* Tenants are imported all at once, and so are the leases of a room.      *)
TenantsTogether == mapped \cap Tenants # {} => Tenants \ Bad \subseteq mapped
LeasesTogether(S) ==
    \A n \in S \cap Rents, o \in Rents :
        RoomOf[o] = RoomOf[n] /\ EligibleLease(o) => o \in mapped \cup S

Tables ==
    /\ Genuine(mapped) /\ TenantsTogether /\ LeasesTogether(mapped)
    /\ \A d \in (Readings \cap mapped) \ late : LatestInExport(hung[d], d)
    /\ active \cap Rents \subseteq mapped

(* Dates stay those of the export until the application ends a lease, and  *)
(* a call is owed for a lease that it has made or ended.                   *)
Contracts ==
    /\ \A n \in Rents \ ended : span[n] = [from |-> StartDate[n], to |-> EndDate[n]]
    /\ \A m \in owed : m[2] \in ended \/ (m[2] \in AppLeases /\ let[m[2]] # None)

(* Stages that wait for nothing import all there is.                       *)
Whole(k, S) ==
    /\ k = "properties" => Estates \ Bad \subseteq S
    /\ k = "tenants" => Tenants \ Bad \subseteq S

KindOf(k) ==
    CASE k = "properties" -> Estates \cup Owners
      [] k = "rooms" -> Rooms
      [] k = "tenants" -> Tenants
      [] k = "leases" -> Rents
      [] k = "bills" -> Readings
      [] k = "journal" -> Schedules \cup {Author}
      [] OTHER -> {}

(* What a command has planned stays what it should commit.                 *)
Promise(j) ==
    LET k == job[j].stage
        rows == job[j].rows
    IN  /\ rows \subseteq KindOf(k)
        /\ k = "properties" /\ rows # {} => rows \cap Estates # {}
        /\ Genuine(rows) /\ LeasesTogether(rows) /\ Whole(k, mapped \cup rows)
        /\ job[j].prices \subseteq priced
        /\ job[j].inOrder /\ job[j].prices = priced => Sound(k) \subseteq mapped \cup rows
        /\ \A b \in job[j].bills : Touched(RoomOf[b[1]]) \/ LatestInExport(b[2], b[1])

Promises ==
    /\ \A j \in Jobs : IsRunning(j) => Promise(j)
    /\ \A j \in Jobs : job[j] # None /\ job[j].phase = "committed" => Whole(job[j].stage, mapped)
    /\ \A k \in reported : Whole(k, mapped)

(* A stage that is up to date has everything it waits for up to date.      *)
FreshInOrder == \A k \in fresh : DependsOn(k) \subseteq fresh

(* The application changes nothing before it is opened; and if it was      *)
(* opened on reconciled rooms, no stage brings anything that could change  *)
(* them.                                                                   *)
Opening ==
    /\ opened = "no" =>
           /\ deleted = {} /\ ended = {} /\ late = {} /\ owed = {} /\ seen = {}
           /\ \A l \in AppLeases : let[l] = None
    /\ opened = "in_order" =>
           /\ (Estates \cup Tenants) \ Bad \subseteq mapped
           /\ {r \in Rooms : EligibleRoom(r)} \cup {n \in Rents : EligibleLease(n)} \subseteq mapped

(* A room that is kept for an imported lease; nobody has read that it may  *)
(* be had.                                                                 *)
Kept(r) ==
    /\ RoomWithProperty(r) /\ status[r] = "occupied"
    /\ \A l \in AppLeases : let[l] # r
    /\ \A op \in {"maintenance", "delete"} : <<op, r>> \notin seen /\ <<op, EstateOf[r]>> \notin seen
RoomsKept ==
    opened = "in_order" => \A n \in active \cap Rents : Vacated(RoomOf[n]) \/ Kept(RoomOf[n])

FaithInv ==
    /\ Tables /\ Promises /\ FreshInOrder /\ ImportComplete
    /\ Contracts /\ Opening /\ RoomsReconciled /\ RoomsKept

LEMMA SmallestOf ==
    ASSUME NEW S \in SUBSET Nat, S # {}
    PROVE  \E x \in S : \A y \in S : x <= y
<1>1. PICK x \in S : \A y \in S : ~(<<y, x>> \in OpToRel(<, Nat))
  BY NatLessThanWellFounded, WFMin
<1>2. \A y \in S : ~(y < x)
  BY <1>1 DEF OpToRel
<1> QED
  BY <1>2

LEMMA PrimaryLinked ==
    ASSUME NEW n \in Rents, LinkedTenants[n] # {}
    PROVE  Primary(n) \in LinkedTenants[n] /\ Primary(n) \in Tenants
<1>1. LinkedTenants[n] \subseteq Tenants /\ LinkedTenants[n] \subseteq Nat
  BY SourceAssumption, TenantAssumption
<1>2. \E t \in LinkedTenants[n] : \A u \in LinkedTenants[n] : t <= u
  BY <1>1, SmallestOf
<1>3. Primary(n) \in LinkedTenants[n]
  BY <1>2 DEF Primary
<1> QED
  BY <1>1, <1>3

(* Among the imported leases that cover a month one starts last.           *)
LEMMA LatestExists ==
    ASSUME NEW d, NEW n \in Rents \cap mapped, Covers(n, d)
    PROVE  \E o \in Rents : LatestInExport(o, d)
<1> DEFINE A == {o \in Rents \cap mapped : Covers(o, d)}
<1>1. A \subseteq Rents /\ n \in A /\ StartDate \in [Rents -> Nat]
  BY SourceAssumption
<1> HIDE DEF A
<1>2. PICK last \in Rents : \A o \in Rents : StartDate[o] <= StartDate[last]
  BY <1>1, SourceAssumption
<1> DEFINE S == {StartDate[last] - StartDate[o] : o \in A}
<1>3. S \subseteq Nat /\ S # {}
  BY <1>1, <1>2
<1> HIDE DEF S
<1>4. PICK x \in S : \A y \in S : x <= y
  BY <1>3, SmallestOf
<1>6. PICK o \in A : x = StartDate[last] - StartDate[o]
  BY DEF S
<1>7. \A p \in A : x <= StartDate[last] - StartDate[p]
  BY <1>4 DEF S
<1>8. \A p \in A : StartDate[p] <= StartDate[o]
  BY <1>1, <1>2, <1>6, <1>7
<1> QED
  BY <1>1, <1>8 DEF LatestInExport, A

(* Where the application has not let a room, nor ended a lease of it, the  *)
(* query finds the leases of the export with their dates in the export.    *)
LEMMA AsExported ==
    ASSUME TypeOK, Contracts, NEW d \in Readings, ~Touched(RoomOf[d]), NEW n \in Leases
    PROVE  LatestFor(n, d) <=> LatestInExport(n, d)
<1>1. ASSUME NEW o \in LeaseRows, RoomOfLease(o) = RoomOf[d]
      PROVE  o \in Rents /\ o \notin ended /\ span[o] = [from |-> StartDate[o], to |-> EndDate[o]]
  <2>1. o \notin ended /\ o \notin {l \in AppLeases : let[l] # None}
    BY <1>1 DEF Touched
  <2> QED
    BY <2>1 DEF LeaseRows, Contracts
<1>2. \A o \in Rents : RoomOfLease(o) = RoomOf[o]
  BY DEF RoomOfLease
<1>3. ASSUME NEW o \in Applicable(d)
      PROVE  o \in Rents \cap mapped /\ Covers(o, d) /\ span[o].from = StartDate[o]
  <2>1. /\ o \in LeaseRows /\ RoomOfLease(o) = RoomOf[d]
        /\ span[o].from <= MonthEnd[d] /\ span[o].to >= MonthStart[d]
    BY <1>3 DEF Applicable
  <2>2. o \in Rents /\ span[o] = [from |-> StartDate[o], to |-> EndDate[o]]
    BY <1>1, <2>1
  <2>3. o \in mapped
    BY <2>1, <2>2, ApplicationAssumption DEF LeaseRows
  <2> QED
    BY <1>2, <2>1, <2>2, <2>3 DEF Covers
<1>4. ASSUME NEW o \in Rents \cap mapped, Covers(o, d) PROVE o \in Applicable(d)
  <2>1. o \in LeaseRows /\ RoomOfLease(o) = RoomOf[d]
    BY <1>2, <1>4 DEF LeaseRows, Covers
  <2>2. span[o] = [from |-> StartDate[o], to |-> EndDate[o]]
    BY <1>1, <2>1
  <2> QED
    BY <1>4, <2>1, <2>2 DEF Applicable, Covers
<1> QED
  BY <1>3, <1>4 DEF LatestFor, LatestInExport

(* Once a room is touched it stays so.                                     *)
LEMMA TouchedKept ==
    ASSUME TypeOK, ended \subseteq ended',
           \A l \in AppLeases : let[l] # None => let'[l] = let[l],
           NEW r \in Rooms
    PROVE  (Vacated(r) => Vacated(r)') /\ (Touched(r) => Touched(r)')
<1>1. ASSUME NEW n \in ended \cup {l \in AppLeases : let[l] # None}, RoomOfLease(n) = r
      PROVE  RoomOfLease(n)' = r /\ n \in ended' \cup {l \in AppLeases : let'[l] # None}
             /\ (n \in ended => n \in ended')
  BY <1>1, NoneAssumption DEF TypeOK, RoomOfLease, Leases
<1> QED
  BY <1>1 DEF Vacated, Touched

LEMMA ReadingRoom == \A d \in Readings : RoomOf[d] \in Rooms
BY SourceAssumption

(* A stage imports records of its own file, and nothing else.              *)
LEMMA RowsOfKind ==
    ASSUME NEW k \in Stages
    PROVE  Rows(k) \subseteq KindOf(k) /\ (k = "properties" /\ Rows(k) # {} => Rows(k) \cap Estates # {})
<1>1. CASE k = "properties"
  BY <1>1, SourceAssumption DEF Rows, KindOf, MigrateProperties, PlaceholderOwners, Unmapped
<1>2. CASE k = "rooms"
  BY <1>2 DEF Rows, KindOf, MigrateRooms, Unmapped
<1>3. CASE k = "tenants"
  BY <1>3 DEF Rows, KindOf, MigrateTenants, Unmapped
<1>4. CASE k = "leases"
  BY <1>4 DEF Rows, KindOf, MigrateLeases, Unmapped
<1>5. CASE k = "room_status"
  BY <1>5 DEF Rows, KindOf
<1>6. CASE k = "bills"
  BY <1>6 DEF Rows, KindOf, MigrateBills, Unmapped
<1>7. CASE k = "journal"
  BY <1>7 DEF Rows, KindOf, MigrateJournal, PlaceholderAuthor, Unmapped
<1> QED
  BY <1>1, <1>2, <1>3, <1>4, <1>5, <1>6, <1>7 DEF Stages

LEMMA KindsApart ==
    ASSUME NEW k \in Stages
    PROVE  /\ k # "properties" => KindOf(k) \cap Estates = {}
           /\ k # "rooms" => KindOf(k) \cap Rooms = {}
           /\ k # "tenants" => KindOf(k) \cap Tenants = {}
           /\ k # "leases" => KindOf(k) \cap Rents = {}
           /\ k # "bills" => KindOf(k) \cap Readings = {}
           /\ k = "room_status" => KindOf(k) = {}
<1>1. CASE k \in {"properties", "journal"}
  BY <1>1, KindAssumption DEF KindOf, Placeholders
<1>2. CASE k \in {"rooms", "tenants", "leases", "bills", "room_status"}
  BY <1>2, KindAssumption DEF KindOf
<1> QED
  BY <1>1, <1>2 DEF Stages

(* What is genuine is eligible.                                            *)
LEMMA GenuineEligible ==
    ASSUME Genuine(mapped), NEW S, Genuine(S)
    PROVE  /\ \A r \in S \cap Rooms : EligibleRoom(r)
           /\ \A n \in S \cap Rents : EligibleLease(n)
<1>1. \A r \in S \cap Rooms : EligibleRoom(r)
  BY SourceAssumption DEF Genuine, EligibleRoom
<1>2. ASSUME NEW n \in S \cap Rents PROVE EligibleLease(n)
  <2>1. RoomOf[n] \in Rooms /\ RoomOf[n] \in mapped
    BY SourceAssumption DEF Genuine
  <2>2. EligibleRoom(RoomOf[n])
    BY <2>1, SourceAssumption DEF Genuine, EligibleRoom
  <2>3. Primary(n) \in Tenants
    BY PrimaryLinked DEF Genuine
  <2> QED
    BY <2>2, <2>3 DEF Genuine, EligibleLease
<1> QED
  BY <1>1, <1>2

LEMMA SoundShrinks ==
    ASSUME NEW k \in Stages, deleted \subseteq deleted', k # "bills" \/ priced' \subseteq priced,
           \A d \in Readings : Touched(RoomOf[d]) => Touched(RoomOf[d])'
    PROVE  Sound(k)' \subseteq Sound(k)
<1>0. \A r : RoomSound(r)' => RoomSound(r)
  BY DEF RoomSound
<1>1. \A n : RentSound(n)' => RentSound(n)
  BY <1>0 DEF RentSound
<1>2. CASE k = "properties"
  BY <1>2 DEF Sound
<1>3. CASE k = "rooms"
  BY <1>0, <1>3 DEF Sound
<1>4. CASE k = "tenants"
  BY <1>4 DEF Sound
<1>5. CASE k = "leases"
  BY <1>1, <1>5 DEF Sound
<1>6. CASE k = "bills"
  BY <1>1, <1>6 DEF Sound, Covers
<1>7. CASE k = "journal"
  BY <1>0, <1>7 DEF Sound
<1>8. CASE k = "room_status"
  BY <1>8 DEF Sound
<1> QED
  BY <1>2, <1>3, <1>4, <1>5, <1>6, <1>7, <1>8 DEF Stages

-----------------------------------------------------------------------------
(* The stages a command waits for have imported what it needs.             *)
LEMMA SoundFound ==
    ASSUME TypeOK, Tables, Contracts, FreshInOrder, ImportComplete, NEW k \in Stages, DependsOn(k) \subseteq fresh
    PROVE  Sound(k) \subseteq mapped \cup Rows(k)
<1>0. "properties" \in fresh => \A e \in Estates \ (Bad \cup deleted) : e \in mapped
  BY DEF ImportComplete, Sound
<1>1. "rooms" \in fresh => \A r \in Rooms : RoomSound(r) => r \in mapped
  BY DEF ImportComplete, Sound
<1>2. CASE k = "properties"
  BY <1>2 DEF Sound, Rows, MigrateProperties, NormalProperty, Unmapped
<1>3. CASE k = "rooms"
  <2>1. "properties" \in fresh
    BY <1>3 DEF DependsOn
  <2>2. \A r \in Rooms : RoomSound(r) => NormalRoom(r)
    BY <1>0, <2>1, SourceAssumption DEF RoomSound, NormalRoom, PropertyFound
  <2> QED
    BY <1>3, <2>2 DEF Sound, Rows, MigrateRooms, Unmapped
<1>4. CASE k = "tenants"
  BY <1>4 DEF Sound, Rows, MigrateTenants, NormalTenant, Unmapped
<1>5. CASE k = "leases"
  <2>1. "rooms" \in fresh /\ "tenants" \in fresh
    BY <1>5 DEF DependsOn
  <2>2. Tenants \ Bad \subseteq mapped
    BY <2>1 DEF ImportComplete, Sound
  <2>3. ASSUME NEW n \in Rents, RentSound(n) PROVE NormalLease(n)
    <3>1. RoomOf[n] \in Rooms /\ RoomSound(RoomOf[n]) /\ n \notin Bad /\ LinkedTenants[n] # {}
      BY <2>3, SourceAssumption DEF RentSound
    <3>2. Live(RoomOf[n])
      BY <1>1, <2>1, <3>1 DEF RoomSound, Live
    <3>3. Primary(n) \in mapped
      BY <2>2, <2>3, <3>1, PrimaryLinked DEF RentSound
    <3> QED
      BY <3>1, <3>2, <3>3 DEF NormalLease, TenantFound
  <2> QED
    BY <1>5, <2>3 DEF Sound, Rows, MigrateLeases, Unmapped
<1>6. CASE k = "bills"
  <2>1. \A n \in Rents : RentSound(n) => n \in mapped
    BY <1>6 DEF DependsOn, ImportComplete, Sound
  <2>2. ASSUME NEW d \in Readings \ Bad, EstateOf[RoomOf[d]] \in priced,
               ~Touched(RoomOf[d]), NEW n \in Rents, RentSound(n), Covers(n, d)
        PROVE  NormalBill(d)
    <3>1. RoomOf[d] = RoomOf[n] /\ n \in mapped
      BY <2>1, <2>2 DEF Covers
    <3>2. RoomOf[n] \in mapped /\ RoomSound(RoomOf[n])
      BY <2>2, <3>1 DEF Tables, Genuine, RentSound
    <3>3. RoomWithProperty(RoomOf[d])
      BY <3>1, <3>2 DEF RoomWithProperty, Live, RoomSound
    <3>4. PICK o \in Rents : LatestInExport(o, d)
      BY <2>2, <3>1, LatestExists
    <3>5. o \in Leases /\ LatestFor(o, d)
      BY <2>2, <3>4, AsExported DEF Leases
    <3> QED
      BY <2>2, <3>3, <3>5 DEF NormalBill
  <2> QED
    BY <1>6, <2>2 DEF Sound, Rows, MigrateBills, Unmapped
<1>7. CASE k = "journal"
  <2>1. "properties" \in fresh /\ "rooms" \in fresh
    BY <1>7 DEF DependsOn
  <2>2. ASSUME NEW s \in Schedules \ Bad, EstateOf[s] \notin Bad \cup deleted,
               RoomOf[s] # None => RoomSound(RoomOf[s])
        PROVE  NormalSchedule(s)
    <3>1. EstateOf[s] \in Estates /\ (RoomOf[s] # None => RoomOf[s] \in Rooms)
      BY SourceAssumption
    <3> QED
      BY <1>0, <1>1, <2>1, <2>2, <3>1 DEF NormalSchedule, PropertyFound, RoomFound
  <2> QED
    BY <1>7, <2>2 DEF Sound, Rows, MigrateJournal, Unmapped
<1>8. CASE k = "room_status"
  BY <1>8 DEF Sound
<1> QED
  BY <1>2, <1>3, <1>4, <1>5, <1>6, <1>7, <1>8 DEF Stages

(* What a stage finds to import is genuine, and all of its kind that may   *)
(* be imported together.                                                   *)
LEMMA RowsGenuine ==
    ASSUME TypeOK, Tables, NEW k \in Stages
    PROVE  Genuine(Rows(k)) /\ LeasesTogether(Rows(k)) /\ Whole(k, mapped \cup Rows(k))
<1>1. /\ k # "properties" => Rows(k) \cap Estates = {}
      /\ k # "tenants" => Rows(k) \cap Tenants = {}
      /\ k # "leases" => Rows(k) \cap Rents = {}
      /\ k # "rooms" => Rows(k) \cap Rooms = {}
  BY RowsOfKind, KindsApart
<1>2. Rows(k) \cap Estates \cap Bad = {}
  BY <1>1, KindAssumption, SourceAssumption
     DEF Rows, MigrateProperties, PlaceholderOwners, Unmapped, NormalProperty, Placeholders
<1>3. Rows(k) \cap Tenants \cap Bad = {}
  BY <1>1 DEF Rows, MigrateTenants, Unmapped, NormalTenant
<1>4. ASSUME NEW r \in Rows(k) \cap Rooms PROVE r \notin Bad /\ EstateOf[r] \in mapped
  BY <1>1, <1>4 DEF Rows, MigrateRooms, Unmapped, NormalRoom, PropertyFound
<1>5. ASSUME NEW n \in Rows(k) \cap Rents PROVE k = "leases" /\ n \in MigrateLeases
  BY <1>1, <1>5 DEF Rows
<1>6. Genuine(Rows(k))
  BY <1>2, <1>3, <1>4, <1>5 DEF Genuine, MigrateLeases, Unmapped, NormalLease, Live, TenantFound
<1>7. ASSUME NEW n \in Rows(k) \cap Rents, NEW o \in Rents, RoomOf[o] = RoomOf[n], EligibleLease(o)
      PROVE  o \in mapped \cup Rows(k)
  <2>1. k = "leases" /\ NormalLease(n)
    BY <1>5 DEF MigrateLeases
  <2>2. Tenants \ Bad \subseteq mapped
    BY <2>1, PrimaryLinked DEF Tables, TenantsTogether, NormalLease, TenantFound
  <2>3. Primary(o) \in mapped
    BY <1>7, <2>2, PrimaryLinked DEF EligibleLease
  <2>4. NormalLease(o)
    BY <1>7, <2>1, <2>3 DEF NormalLease, EligibleLease, TenantFound
  <2> QED
    BY <2>1, <2>4 DEF Rows, MigrateLeases, Unmapped
<1>8. Whole(k, mapped \cup Rows(k))
  BY DEF Whole, Rows, MigrateProperties, MigrateTenants, Unmapped, NormalProperty, NormalTenant
<1> QED
  BY <1>6, <1>7, <1>8 DEF LeasesTogether

(***************************************************************************)
(* A command begins: its plan keeps what it promises.                      *)
(***************************************************************************)
LEMMA BeginFaith ==
    ASSUME IInv, FaithInv, NEW j \in Jobs, NEW k \in Stages, Begin(j, k)
    PROVE  FaithInv'
<1> DEFINE bills == {b \in (Rows(k) \cap Readings) \X Leases : LatestFor(b[2], b[1])}
<1> DEFINE rents == IF k = "bills" THEN MissingRentBills ELSE {}
<1>0. TypeOK /\ Tables /\ Contracts /\ FreshInOrder /\ ImportComplete
  BY DEF IInv, FaithInv
<1>1. UNCHANGED <<mapped, copies, active, status, priced, deleted, hung, rent, let, span, ended,
                  owed, seen, reported, signed, opened, fresh, overlap, late>>
  BY DEF Begin, data, requests
<1>2. PICK plan : /\ plan = [stage |-> k, phase |-> "running", rows |-> Rows(k), bills |-> bills,
                             rents |-> rents, prices |-> priced, inOrder |-> DependsOn(k) \subseteq fresh]
                  /\ job' = [job EXCEPT ![j] = plan]
  BY DEF Begin
<1>3. /\ plan.stage = k /\ plan.rows = Rows(k) /\ plan.bills = bills /\ plan.prices = priced
      /\ plan.inOrder = (DependsOn(k) \subseteq fresh) /\ plan.phase = "running"
  BY <1>2
<1>4. job'[j] = plan /\ \A i \in Jobs \ {j} : job'[i] = job[i]
  BY <1>0, <1>2 DEF TypeOK
<1>5. Promise(j)'
  <2>1. Rows(k) \subseteq KindOf(k) /\ (k = "properties" /\ Rows(k) # {} => Rows(k) \cap Estates # {})
    BY RowsOfKind
  <2>2. Genuine(Rows(k)) /\ LeasesTogether(Rows(k)) /\ Whole(k, mapped \cup Rows(k))
    BY <1>0, RowsGenuine
  <2>3. DependsOn(k) \subseteq fresh => Sound(k) \subseteq mapped \cup Rows(k)
    BY <1>0, SoundFound
  <2>4. \A b \in bills : Touched(RoomOf[b[1]]) \/ LatestInExport(b[2], b[1])
    BY <1>0, AsExported
  <2>5. Sound(k)' = Sound(k)
    BY <1>1 DEF Sound, RoomSound, RentSound, Covers, Touched, RoomOfLease
  <2>17. \A b : /\ LatestInExport(b[2], b[1]) => LatestInExport(b[2], b[1])'
                /\ Touched(RoomOf[b[1]]) => Touched(RoomOf[b[1]])'
    BY <1>1 DEF LatestInExport, Covers, Touched, RoomOfLease
  <2>6. Genuine(Rows(k)) => \A S : S = Rows(k) => Genuine(S)'
    BY <1>1 DEF Genuine
  <2>7. LeasesTogether(Rows(k)) => \A S : S = Rows(k) => LeasesTogether(S)'
    BY <1>1 DEF LeasesTogether
  <2>8. PICK S : S = Rows(k)
    OBVIOUS
  <2>9. job'[j].rows = S /\ job'[j].stage = k /\ job'[j].prices = priced /\ job'[j].bills = bills
        /\ job'[j].inOrder = (DependsOn(k) \subseteq fresh)
    BY <1>3, <1>4, <2>8
  <2>10. Genuine(job[j].rows)' /\ LeasesTogether(job[j].rows)'
    BY <2>2, <2>6, <2>7, <2>8, <2>9 DEF Genuine, LeasesTogether
  <2>11. \A b \in job'[j].bills : (Touched(RoomOf[b[1]]) \/ LatestInExport(b[2], b[1]))'
    BY <2>4, <2>9, <2>17
  <2>12. /\ S \subseteq KindOf(k) /\ (k = "properties" /\ S # {} => S \cap Estates # {})
         /\ Whole(k, mapped \cup S) /\ (DependsOn(k) \subseteq fresh => Sound(k) \subseteq mapped \cup S)
    BY <2>1, <2>2, <2>3, <2>8
  <2> HIDE DEF bills
  <2>13. Whole(job[j].stage, mapped \cup job[j].rows)'
    BY <1>1, <2>9, <2>12 DEF Whole
  <2>14. job'[j].inOrder => (Sound(job[j].stage) \subseteq mapped \cup job[j].rows)'
    BY <1>1, <2>5, <2>9, <2>12 DEF Sound, RoomSound, RentSound, Covers, Touched, RoomOfLease
  <2>15. (job[j].rows \subseteq KindOf(job[j].stage))'
    BY <2>9, <2>12 DEF KindOf
  <2>16. /\ job'[j].stage = "properties" /\ job'[j].rows # {} => job'[j].rows \cap Estates # {}
         /\ job'[j].prices \subseteq priced'
    BY <1>1, <2>9, <2>12
  <2> QED
    BY <2>10, <2>11, <2>13, <2>14, <2>15, <2>16 DEF Promise
<1>6. ASSUME NEW i \in Jobs \ {j}, Promise(i) PROVE Promise(i)'
  BY <1>1, <1>4, <1>6 DEF Promise, Genuine, LeasesTogether, Whole, KindOf, Sound, RoomSound,
     RentSound, LatestInExport, Covers, Touched, RoomOfLease
<1>7. Promises'
  BY <1>1, <1>3, <1>4, <1>5, <1>6 DEF FaithInv, Promises, IsRunning, Whole
<1>8. Tables' /\ FreshInOrder' /\ ImportComplete'
  BY <1>1 DEF FaithInv, Tables, Genuine, TenantsTogether, LeasesTogether, LatestInExport, Covers,
     FreshInOrder, ImportComplete, Sound, RoomSound, RentSound, Touched, RoomOfLease
<1>9. Contracts' /\ Opening' /\ RoomsReconciled' /\ RoomsKept'
  BY <1>1 DEF FaithInv, Contracts, Opening, EligibleRoom, EligibleLease, RoomsReconciled, Live,
     ActiveRooms, RoomsKept, Kept, RoomWithProperty, Vacated, RoomOfLease
<1> QED
  BY <1>7, <1>8, <1>9 DEF FaithInv

-----------------------------------------------------------------------------
(* What a commit does to the history of stages run in order.               *)
LEMMA FinishedFresh ==
    ASSUME TypeOK, FreshInOrder, NEW j \in Jobs, IsRunning(j), Finished(j)
    PROVE  /\ FreshInOrder'
           /\ fresh' \subseteq fresh \cup {job[j].stage}
           /\ job[j].stage \in fresh' \ fresh => job[j].inOrder /\ job[j].prices = priced
           /\ "room_status" \in fresh' /\ job[j].stage # "room_status" =>
                  /\ "room_status" \in fresh
                  /\ job[j].rows # {} => job[j].stage \in {"bills", "journal"}
           /\ job[j].stage \in {"bills", "journal"} \/ job[j].rows = {} => fresh \subseteq fresh'
<1> DEFINE k == job[j].stage
<1>1. k \in Stages
  BY JobType
<1>2. fresh' = (IF job[j].rows = {} THEN fresh ELSE fresh \ After(k))
               \cup (IF InOrder(j) /\ job[j].prices = priced THEN {k} ELSE {})
  BY DEF Finished
<1>3. \A m \in Stages : \A p \in DependsOn(m) : p \in Stages
  BY DEF DependsOn, Stages
<1>4. \A m \in Stages : \A p \in DependsOn(m) : p \in After(k) => m \in After(k)
  BY <1>1 DEF DependsOn, After, Stages
<1>5. DependsOn(k) \cap After(k) = {}
  BY <1>1 DEF DependsOn, After, Stages
<1>6. InOrder(j) => job[j].inOrder /\ DependsOn(k) \subseteq fresh
  BY DEF InOrder
<1>7. FreshInOrder'
  <2>1. ASSUME NEW m \in fresh', NEW p \in DependsOn(m) PROVE p \in fresh'
    <3>1. m \in Stages
      BY <1>1, <1>2 DEF TypeOK
    <3>2. CASE m \in fresh /\ (job[j].rows = {} \/ m \notin After(k))
      BY <1>2, <1>4, <2>1, <3>1, <3>2 DEF FreshInOrder
    <3>3. CASE m = k /\ InOrder(j)
      BY <1>2, <1>5, <1>6, <2>1, <3>3
    <3> QED
      BY <1>2, <3>2, <3>3
  <2> QED
    BY <2>1 DEF FreshInOrder
<1>8. k \notin {"room_status", "bills", "journal"} => "room_status" \in After(k)
  BY <1>1 DEF After, Stages
<1>9. k \in {"bills", "journal"} => After(k) = {}
  BY DEF After
<1> HIDE DEF k
<1> QED
  BY <1>2, <1>6, <1>7, <1>8, <1>9 DEF k

(* The latest lease that covers a month is imported with all the others    *)
(* of its room that ever are.                                              *)
LEMMA LatestKept ==
    ASSUME Tables, NEW S, Genuine(S), mapped' = mapped \cup S, S \cap mapped = {},
           NEW d \in Readings, NEW n \in Rents, LatestInExport(n, d)
    PROVE  LatestInExport(n, d)'
<1>1. ASSUME NEW o \in Rents \cap mapped', Covers(o, d) PROVE o \in mapped
  <2>1. n \in mapped /\ RoomOf[o] = RoomOf[n]
    BY <1>1 DEF LatestInExport, Covers
  <2>2. CASE o \in S
    <3>1. EligibleLease(o)
      BY <2>2, GenuineEligible DEF Tables
    <3> QED
      BY <2>1, <3>1 DEF Tables, LeasesTogether
  <2> QED
    BY <1>1, <2>2
<1>2. Covers(n, d)' /\ \A o \in Rents : Covers(o, d)' = Covers(o, d)
  BY DEF LatestInExport, Covers
<1> QED
  BY <1>1, <1>2 DEF LatestInExport

(* What other commands have promised, and the stages that were completed,  *)
(* after a commit.                                                         *)
LEMMA PromisesKept ==
    ASSUME IInv, FaithInv, NEW j \in Jobs, IsRunning(j), Finished(j),
           mapped' = mapped \cup job[j].rows, job[j].rows \cap mapped = {},
           UNCHANGED <<priced, deleted, requests, reported>>
    PROVE  Promises'
<1>0. TypeOK /\ Tables /\ Promise(j) /\ job[j].stage \in Stages
  BY JobType DEF IInv, FaithInv, Promises
<1>1. /\ job'[j] = [stage |-> job[j].stage, phase |-> "committed"]
      /\ \A i \in Jobs \ {j} : job'[i] = job[i]
  BY <1>0 DEF Finished, TypeOK
<1>2. ASSUME NEW i \in Jobs \ {j}, IsRunning(i) PROVE Promise(i)'
  <2>0. Promise(i) /\ job'[i] = job[i] /\ job[i].stage \in Stages /\ job[i].bills \in SUBSET (Readings \X Leases)
    BY <1>0, <1>1, <1>2, JobType DEF FaithInv, Promises
  <2>1. Genuine(job[i].rows)' /\ LeasesTogether(job[i].rows)'
    BY <2>0 DEF Promise, Genuine, LeasesTogether
  <2>2. Whole(job[i].stage, mapped \cup job[i].rows)'
    BY <2>0 DEF Promise, Whole
  <2>3. Sound(job[i].stage)' \subseteq Sound(job[i].stage)
    BY <2>0, SoundShrinks DEF requests, Touched, RoomOfLease
  <2>4. (job[i].inOrder /\ job[i].prices = priced => Sound(job[i].stage) \subseteq mapped \cup job[i].rows)'
    <3>1. Sound(job[i].stage)' = Sound(job[i].stage)
      BY <2>0 DEF requests, Sound, RoomSound, RentSound, Covers, Touched, RoomOfLease
    <3>2. job[i].inOrder /\ job[i].prices = priced => Sound(job[i].stage) \subseteq mapped \cup job[i].rows
      BY <2>0 DEF Promise
    <3> QED
      BY <2>0, <3>1, <3>2
  <2>5. \A b \in job'[i].bills : (Touched(RoomOf[b[1]]) \/ LatestInExport(b[2], b[1]))'
    <3>1. ASSUME NEW b \in job[i].bills, LatestInExport(b[2], b[1]) PROVE LatestInExport(b[2], b[1])'
      <4>1. PICK d \in Readings, n \in Rents : b[1] = d /\ b[2] = n
        BY <2>0, <3>1 DEF LatestInExport
      <4>2. LatestInExport(n, d)
        BY <3>1, <4>1
      <4>3. Genuine(job[j].rows)
        BY <1>0 DEF Promise
      <4>4. LatestInExport(n, d)'
        BY <1>0, <4>2, <4>3, LatestKept
      <4> QED
        BY <4>1, <4>4 DEF LatestInExport, Covers
    <3>2. \A b \in job[i].bills : Touched(RoomOf[b[1]]) => Touched(RoomOf[b[1]])'
      BY DEF requests, Touched, RoomOfLease
    <3> QED
      BY <2>0, <3>1, <3>2 DEF Promise
  <2>6. /\ (job[i].rows \subseteq KindOf(job[i].stage))'
        /\ job'[i].stage = "properties" /\ job'[i].rows # {} => job'[i].rows \cap Estates # {}
        /\ job'[i].prices \subseteq priced'
    BY <2>0 DEF Promise, KindOf
  <2> QED
    BY <2>1, <2>2, <2>4, <2>5, <2>6 DEF Promise
<1>3. \A i \in Jobs : IsRunning(i)' => i # j /\ IsRunning(i)
  BY <1>1 DEF IsRunning
<1>4. \A k : Whole(k, mapped) => Whole(k, mapped)'
  BY DEF Whole
<1>5. Whole(job[j].stage, mapped)'
  BY <1>0, <1>1 DEF Promise, Whole
<1>6. ASSUME NEW i \in Jobs, job'[i] # None, job'[i].phase = "committed"
      PROVE  Whole(job[i].stage, mapped)'
  <2>1. CASE i = j
    BY <1>1, <1>5, <2>1 DEF Whole
  <2>2. CASE i # j
    <3>1. job'[i] = job[i] /\ Whole(job[i].stage, mapped)
      BY <1>1, <1>6, <2>2 DEF FaithInv, Promises
    <3> QED
      BY <1>4, <3>1 DEF Whole
  <2> QED
    BY <2>1, <2>2
<1>7. \A k \in reported' : Whole(k, mapped)'
  BY <1>4 DEF FaithInv, Promises
<1> QED
  BY <1>2, <1>3, <1>6, <1>7 DEF Promises

(***************************************************************************)
(* A command commits an import.                                            *)
(***************************************************************************)
LEMMA ImportTables ==
    ASSUME IInv, FaithInv, NEW j \in Jobs, NEW k \in Stages, Import(j, k),
           active' = active \cup {n \in job[j].rows \cap Rents : ActiveLike(n)},
           \A d \in Readings \ job[j].rows : hung'[d] = hung[d],
           late \subseteq late' /\ \A d \in late' \ late : Touched(RoomOf[d]),
           \A d \in (Readings \cap job[j].rows) \ late' : LatestInExport(hung'[d], d)
    PROVE  Tables'
<1> DEFINE rows == job[j].rows
<1>0. /\ TypeOK /\ Tables /\ IsRunning(j) /\ Promise(j) /\ job[j].stage = k
      /\ rows \cap mapped = {} /\ mapped' = mapped \cup rows
  BY DEF IInv, FaithInv, Promises, Import, NoConflict, MappingsOf
<1>1. Genuine(rows) /\ LeasesTogether(rows) /\ Whole(k, mapped \cup rows) /\ rows \subseteq KindOf(k)
  BY <1>0 DEF Promise
<1>2. Genuine(mapped)'
  BY <1>0, <1>1 DEF Tables, Genuine
<1>3. TenantsTogether'
  <2>1. CASE k = "tenants"
    BY <1>0, <1>1, <2>1 DEF TenantsTogether, Whole
  <2>2. CASE k # "tenants"
    <3>1. rows \cap Tenants = {}
      BY <1>1, <2>2, KindsApart
    <3> QED
      BY <1>0, <3>1 DEF Tables, TenantsTogether
  <2> QED
    BY <2>1, <2>2
<1>4. LeasesTogether(mapped)'
  BY <1>0, <1>1 DEF Tables, LeasesTogether
<1>5. ASSUME NEW d \in (Readings \cap mapped') \ late' PROVE LatestInExport(hung[d], d)'
  <2>1. PICK n : n = hung'[d]
    OBVIOUS
  <2>2. LatestInExport(n, d)
    <3>1. CASE d \in rows
      BY <1>5, <2>1, <3>1
    <3>2. CASE d \notin rows
      <4>1. d \in mapped /\ d \notin late /\ n = hung[d]
        BY <1>0, <1>5, <2>1, <3>2
      <4> QED
        BY <1>0, <4>1 DEF Tables
    <3> QED
      BY <3>1, <3>2
  <2>3. n \in Rents
    BY <2>2 DEF LatestInExport
  <2>4. LatestInExport(n, d)'
    BY <1>0, <1>1, <2>2, <2>3, LatestKept
  <2> QED
    BY <2>1, <2>4 DEF LatestInExport, Covers
<1>6. active' \cap Rents \subseteq mapped'
  BY <1>0 DEF Tables, ActiveLike
<1> QED
  BY <1>2, <1>3, <1>4, <1>5, <1>6 DEF Tables

(* Nothing that could change rooms is imported on an open database whose   *)
(* rooms were reconciled before.                                           *)
LEMMA NothingLeft ==
    ASSUME FaithInv, NEW j \in Jobs, IsRunning(j), job[j].stage \in Stages,
           job[j].rows \cap mapped = {}, opened = "in_order"
    PROVE  job[j].stage \in {"bills", "journal"} \/ job[j].rows = {}
<1> DEFINE k == job[j].stage
<1> DEFINE rows == job[j].rows
<1>1. Promise(j) /\ Genuine(mapped) /\ Genuine(rows) /\ rows \subseteq KindOf(k)
  BY DEF FaithInv, Promises, Promise, Tables
<1>2. /\ (Estates \cup Tenants) \ Bad \subseteq mapped
      /\ \A r \in Rooms : EligibleRoom(r) => r \in mapped
      /\ \A n \in Rents : EligibleLease(n) => n \in mapped
  BY DEF FaithInv, Opening
<1>3. rows \cap Rooms = {} /\ rows \cap Rents = {}
  BY <1>1, <1>2, GenuineEligible
<1>4. rows \cap Estates = {} /\ rows \cap Tenants = {}
  BY <1>1, <1>2 DEF Genuine
<1>5. CASE k = "properties"
  BY <1>1, <1>4, <1>5 DEF Promise
<1>6. CASE k \in {"rooms", "tenants", "leases", "room_status"}
  BY <1>1, <1>3, <1>4, <1>6 DEF KindOf
<1> QED
  BY <1>5, <1>6 DEF Stages

LEMMA ImportFaith ==
    ASSUME IInv, FaithInv, NEW j \in Jobs, NEW k \in Stages \ {"room_status"}, Import(j, k),
           active' = active \cup {n \in job[j].rows \cap Rents : ActiveLike(n)},
           \A r \in Rooms \ job[j].rows : status'[r] = status[r],
           \A d \in Readings \ job[j].rows : hung'[d] = hung[d],
           late \subseteq late' /\ \A d \in late' \ late : Touched(RoomOf[d]),
           \A d \in (Readings \cap job[j].rows) \ late' : LatestInExport(hung'[d], d)
    PROVE  FaithInv'
<1> DEFINE rows == job[j].rows
<1>0. /\ TypeOK /\ FreshInOrder /\ IsRunning(j) /\ Promise(j) /\ job[j].stage = k
      /\ rows \cap mapped = {} /\ mapped' = mapped \cup rows /\ Finished(j)
      /\ UNCHANGED <<priced, deleted, requests, reported, signed, opened>>
      /\ UNCHANGED <<let, span, ended, owed, seen>>
  BY DEF IInv, FaithInv, Promises, Import, NoConflict, MappingsOf, requests
<1>1. Tables'
  BY ImportTables
<1>2. Promises'
  BY <1>0, PromisesKept
<1>3. FreshInOrder'
  BY <1>0, FinishedFresh
<1>4. ImportComplete'
  <2>1. ASSUME NEW m \in fresh' PROVE Sound(m)' \subseteq mapped'
    <3>0. Sound(m)' = Sound(m)
      BY <1>0 DEF Sound, RoomSound, RentSound, Covers, Touched, RoomOfLease
    <3>1. CASE m \in fresh
      BY <1>0, <3>0, <3>1 DEF FaithInv, ImportComplete
    <3>2. CASE m \notin fresh
      <4>1. m = k /\ job[j].inOrder /\ job[j].prices = priced
        BY <1>0, <2>1, <3>2, FinishedFresh
      <4>2. Sound(k) \subseteq mapped \cup rows
        BY <1>0, <4>1 DEF Promise
      <4> QED
        BY <1>0, <3>0, <4>1, <4>2
    <3> QED
      BY <3>1, <3>2
  <2> QED
    BY <2>1 DEF ImportComplete
<1>5. k \in {"bills", "journal"} \/ rows = {} => rows \cap Rooms = {} /\ rows \cap Rents = {}
  BY <1>0, KindsApart DEF Promise
<1>6. opened = "in_order" => (k \in {"bills", "journal"} \/ rows = {}) /\ fresh \subseteq fresh'
  BY <1>0, NothingLeft, FinishedFresh
<1>7. Opening'
  <2>1. opened = "no" => late' = {}
    BY DEF FaithInv, Opening, Touched
  <2> QED
    BY <1>0, <1>6, <2>1 DEF FaithInv, Opening, EligibleRoom, EligibleLease
<1>8. rows \cap Rooms = {} /\ rows \cap Rents = {} =>
          /\ active' = active /\ ActiveRooms' = ActiveRooms
          /\ \A r \in Rooms : Live(r)' = Live(r) /\ status'[r] = status[r]
  BY <1>0 DEF ActiveRooms, RoomOfLease, Live
<1>9. RoomsReconciled'
  <2>1. SUFFICES ASSUME "room_status" \in fresh', opened = "no"
                 PROVE  \A r \in Rooms : Live(r)' => (status'[r] = "occupied") = (r \in ActiveRooms')
    BY <1>0 DEF RoomsReconciled
  <2>2. "room_status" \in fresh /\ (k \in {"bills", "journal"} \/ rows = {})
    BY <1>0, <2>1, FinishedFresh
  <2> QED
    BY <1>5, <1>8, <2>1, <2>2 DEF FaithInv, RoomsReconciled
<1>10. RoomsKept'
  <2>1. SUFFICES ASSUME opened = "in_order", NEW n \in active \cap Rents
                 PROVE  (Vacated(RoomOf[n]) \/ Kept(RoomOf[n]))'
    BY <1>0, <1>5, <1>6, <1>8 DEF RoomsKept
  <2>2. RoomOf[n] \in Rooms /\ (Vacated(RoomOf[n]) \/ Kept(RoomOf[n]))
    BY <2>1, SourceAssumption DEF FaithInv, RoomsKept
  <2> QED
    BY <1>0, <1>5, <1>6, <1>8, <2>1, <2>2 DEF Vacated, RoomOfLease, Kept, RoomWithProperty
<1>11. Contracts'
  BY <1>0 DEF FaithInv, Contracts
<1> QED
  BY <1>1, <1>2, <1>3, <1>4, <1>7, <1>9, <1>10, <1>11 DEF FaithInv

LEMMA ImportSteps ==
    ASSUME IInv, FaithInv, NEW j \in Jobs,
           \/ ImportProperties(j) \/ ImportRooms(j) \/ ImportTenants(j) \/ ImportLeases(j)
           \/ ImportBills(j) \/ ImportJournal(j)
    PROVE  FaithInv'
<1>0. TypeOK /\ (IsRunning(j) => Promise(j) /\ Plan(j))
  BY DEF IInv, FaithInv, Promises
<1>1. ASSUME NEW k \in Stages \ {"room_status"}, Import(j, k)
      PROVE  /\ job[j].rows \subseteq KindOf(k) /\ job[j].stage = k
             /\ k # "leases" => {n \in job[j].rows \cap Rents : ActiveLike(n)} = {}
             /\ k # "bills" => job[j].rows \cap Readings = {}
  <2>1. job[j].rows \subseteq KindOf(k) /\ job[j].stage = k
    BY <1>0, <1>1 DEF Import, Promise
  <2> QED
    BY <2>1, KindsApart
<1>2. CASE ImportProperties(j)
  <2>1. Import(j, "properties") /\ "properties" \in Stages \ {"room_status"}
    BY <1>2 DEF ImportProperties, Stages
  <2> QED
    BY <1>1, <1>2, <2>1, ImportFaith DEF ImportProperties
<1>3. CASE ImportRooms(j)
  <2>1. Import(j, "rooms") /\ "rooms" \in Stages \ {"room_status"}
    BY <1>3 DEF ImportRooms, Stages
  <2> QED
    BY <1>1, <1>3, <2>1, ImportFaith DEF ImportRooms
<1>4. CASE ImportTenants(j)
  <2>1. Import(j, "tenants") /\ "tenants" \in Stages \ {"room_status"}
    BY <1>4 DEF ImportTenants, Stages
  <2> QED
    BY <1>1, <1>4, <2>1, ImportFaith DEF ImportTenants
<1>5. CASE ImportLeases(j)
  <2>1. Import(j, "leases") /\ "leases" \in Stages \ {"room_status"}
    BY <1>5 DEF ImportLeases, Stages
  <2> QED
    BY <1>1, <1>5, <2>1, ImportFaith DEF ImportLeases
<1>6. CASE ImportBills(j)
  <2>1. Import(j, "bills") /\ "bills" \in Stages \ {"room_status"} /\ IsRunning(j)
    BY <1>6 DEF ImportBills, Stages, Import
  <2>2. job[j].bills \in SUBSET (Readings \X Leases)
    BY <1>0, <2>1, JobType
  <2>3. ASSUME NEW d \in (Readings \cap job[j].rows) \ late' PROVE LatestInExport(hung'[d], d)
    <3>1. PICK c : c = CHOOSE b \in job[j].bills : b[1] = d
      OBVIOUS
    <3>2. c \in job[j].bills /\ c[1] = d
      BY <1>0, <2>1, <3>1 DEF Plan
    <3>3. hung'[d] = c[2]
      BY <1>6, <3>1 DEF ImportBills
    <3>4. ~Touched(RoomOf[d])
      BY <1>6, <2>3 DEF ImportBills
    <3> QED
      BY <1>0, <2>1, <3>2, <3>3, <3>4 DEF Promise
  <2>5. late \subseteq late' /\ \A d \in late' \ late : Touched(RoomOf[d])
    BY <1>6 DEF ImportBills
  <2>4. \A d \in Readings \ job[j].rows : hung'[d] = hung[d]
    BY <1>6 DEF ImportBills
  <2> QED
    BY <1>1, <1>6, <2>1, <2>3, <2>4, <2>5, ImportFaith DEF ImportBills
<1>7. CASE ImportJournal(j)
  <2>1. Import(j, "journal") /\ "journal" \in Stages \ {"room_status"}
    BY <1>7 DEF ImportJournal, Stages
  <2> QED
    BY <1>1, <1>7, <2>1, ImportFaith DEF ImportJournal
<1> QED
  BY <1>2, <1>3, <1>4, <1>5, <1>6, <1>7

LEMMA ReconcileFaith ==
    ASSUME IInv, FaithInv, NEW j \in Jobs, ReconcileRoomStatus(j)
    PROVE  FaithInv'
<1>0. /\ TypeOK /\ FreshInOrder /\ IsRunning(j) /\ Promise(j) /\ job[j].stage = "room_status"
      /\ "room_status" \in Stages /\ Finished(j)
      /\ UNCHANGED <<mapped, copies, active, priced, deleted, hung, rent, reported, signed,
                     opened, overlap, late>>
      /\ UNCHANGED <<let, span, ended, owed, seen>>
  BY DEF IInv, FaithInv, Promises, ReconcileRoomStatus, Stages, requests
<1>1. job[j].rows = {}
  BY <1>0 DEF Promise, KindOf
<1>2. Promises'
  BY <1>0, <1>1, PromisesKept DEF requests
<1>3. FreshInOrder' /\ fresh' \subseteq fresh \cup {"room_status"} /\ fresh \subseteq fresh'
  BY <1>0, <1>1, FinishedFresh
<1>4. Tables'
  BY <1>0 DEF FaithInv, Tables, Genuine, TenantsTogether, LeasesTogether, LatestInExport, Covers
<1>5. ImportComplete'
  <2>1. \A k : Sound(k)' = Sound(k)
    BY <1>0 DEF Sound, RoomSound, RentSound, Covers, Touched, RoomOfLease
  <2>2. Sound("room_status") = {}
    BY DEF Sound
  <2> QED
    BY <1>0, <1>3, <2>1, <2>2 DEF FaithInv, ImportComplete
<1>6. Opening'
  BY <1>0, <1>3 DEF FaithInv, Opening, EligibleRoom, EligibleLease
<1>7. RoomsReconciled'
  <2>1. \A r \in Rooms : Live(r) => (status'[r] = "occupied") = (r \in ActiveRooms)
    BY DEF ReconcileRoomStatus, ImpossibleRooms
  <2> QED
    BY <1>0, <2>1 DEF RoomsReconciled, Live, ActiveRooms, RoomOfLease
<1>8. Contracts'
  BY <1>0 DEF FaithInv, Contracts
<1>9. RoomsKept'
  <2>1. SUFFICES ASSUME opened = "in_order", NEW n \in active \cap Rents, ~Vacated(RoomOf[n])
                 PROVE  Kept(RoomOf[n])'
    BY <1>0 DEF RoomsKept, Vacated, RoomOfLease
  <2>2. RoomOf[n] \in Rooms /\ Kept(RoomOf[n])
    BY <2>1, SourceAssumption DEF FaithInv, RoomsKept
  <2>3. RoomOf[n] \in ActiveRooms
    BY <2>1 DEF ActiveRooms, RoomOfLease
  <2>4. status'[RoomOf[n]] = "occupied"
    BY <1>0, <2>2, <2>3 DEF ReconcileRoomStatus, Kept, RoomWithProperty, Reconciled
  <2> QED
    BY <1>0, <2>2, <2>4 DEF Kept, RoomWithProperty, Live
<1> QED
  BY <1>2, <1>3, <1>4, <1>5, <1>6, <1>7, <1>8, <1>9 DEF FaithInv

-----------------------------------------------------------------------------
(* Steps that import nothing.                                              *)
LEMMA EndFaith ==
    ASSUME IInv, FaithInv, NEW j \in Jobs, WriteReport(j) \/ Fail(j)
    PROVE  FaithInv'
<1>0. TypeOK
  BY DEF IInv
<1>1. /\ job' = [job EXCEPT ![j] = None]
      /\ UNCHANGED <<mapped, copies, active, status, priced, deleted, hung, rent, let, span, ended,
                     owed, seen, signed, opened, fresh, overlap, late>>
  BY DEF WriteReport, Fail, data, requests
<1>2. job'[j] = None /\ \A i \in Jobs \ {j} : job'[i] = job[i]
  BY <1>0, <1>1 DEF TypeOK
<1>3. \A k \in reported' : k \in reported \/ (job[j] # None /\ job[j].phase = "committed" /\ k = job[j].stage)
  BY DEF WriteReport, Fail
<1>4. \A k \in reported' : Whole(k, mapped)
  BY <1>3 DEF FaithInv, Promises
<1>5. ASSUME NEW i \in Jobs \ {j}, Promise(i) PROVE Promise(i)'
  BY <1>1, <1>2, <1>5 DEF Promise, Genuine, LeasesTogether, Whole, KindOf, Sound, RoomSound,
     RentSound, LatestInExport, Covers, Touched, RoomOfLease
<1>6. Promises'
  BY <1>1, <1>2, <1>4, <1>5 DEF FaithInv, Promises, IsRunning, Whole
<1>7. Tables' /\ FreshInOrder' /\ ImportComplete'
  BY <1>1 DEF FaithInv, Tables, Genuine, TenantsTogether, LeasesTogether, LatestInExport, Covers,
     FreshInOrder, ImportComplete, Sound, RoomSound, RentSound, Touched, RoomOfLease
<1>8. Contracts' /\ Opening' /\ RoomsReconciled' /\ RoomsKept'
  BY <1>1 DEF FaithInv, Contracts, Opening, EligibleRoom, EligibleLease, RoomsReconciled, Live,
     ActiveRooms, RoomsKept, Kept, RoomWithProperty, Vacated, RoomOfLease
<1> QED
  BY <1>6, <1>7, <1>8 DEF FaithInv

(* At the cutover everything that the stages wait for has been imported.   *)
LEMMA CutoverFaith ==
    ASSUME IInv, FaithInv, ValidateMigration \/ Cutover \/ UNCHANGED vars
    PROVE  FaithInv'
<1>1. UNCHANGED <<mapped, copies, active, status, priced, deleted, hung, rent, let, span, ended,
                  owed, seen, job, reported, fresh, overlap, late>>
  BY DEF ValidateMigration, Cutover, data, requests, vars
<1>2. \/ opened' = opened
      \/ opened = "no" /\ opened' = IF "room_status" \in fresh THEN "in_order" ELSE "early"
  BY DEF ValidateMigration, Cutover, vars
<1>3. ASSUME NEW i \in Jobs, Promise(i) PROVE Promise(i)'
  BY <1>1, <1>3 DEF Promise, Genuine, LeasesTogether, Whole, KindOf, Sound, RoomSound,
     RentSound, LatestInExport, Covers, Touched, RoomOfLease
<1>4. Promises'
  BY <1>1, <1>3 DEF FaithInv, Promises, IsRunning, Whole
<1>5. Tables' /\ FreshInOrder' /\ ImportComplete'
  BY <1>1 DEF FaithInv, Tables, Genuine, TenantsTogether, LeasesTogether, LatestInExport, Covers,
     FreshInOrder, ImportComplete, Sound, RoomSound, RentSound, Touched, RoomOfLease
<1>6. ASSUME opened = "no", "room_status" \in fresh
      PROVE  /\ (Estates \cup Tenants) \ Bad \subseteq mapped
             /\ {r \in Rooms : EligibleRoom(r)} \cup {n \in Rents : EligibleLease(n)} \subseteq mapped
  <2>1. "leases" \in fresh
    BY <1>6 DEF FaithInv, FreshInOrder, DependsOn
  <2>2. "rooms" \in fresh /\ "tenants" \in fresh
    BY <2>1 DEF FaithInv, FreshInOrder, DependsOn
  <2>3. "properties" \in fresh
    BY <2>2 DEF FaithInv, FreshInOrder, DependsOn
  <2>4. deleted = {}
    BY <1>6 DEF FaithInv, Opening
  <2>5. Sound("properties") \subseteq mapped /\ Sound("tenants") \subseteq mapped
        /\ Sound("rooms") \subseteq mapped /\ Sound("leases") \subseteq mapped
    BY <2>1, <2>2, <2>3 DEF FaithInv, ImportComplete
  <2>6. (Estates \cup Tenants) \ Bad \subseteq mapped
    BY <2>4, <2>5 DEF Sound
  <2>7. \A r \in Rooms : EligibleRoom(r) => r \in mapped
    BY <2>4, <2>5 DEF Sound, EligibleRoom, RoomSound
  <2>8. \A n \in Rents : EligibleLease(n) => n \in mapped
    BY <2>4, <2>5 DEF Sound, EligibleLease, EligibleRoom, RentSound, RoomSound
  <2> QED
    BY <2>6, <2>7, <2>8
<1>7. Opening'
  BY <1>1, <1>2, <1>6 DEF FaithInv, Opening, EligibleRoom, EligibleLease
<1>8. RoomsReconciled'
  BY <1>1, <1>2 DEF FaithInv, RoomsReconciled, Live, ActiveRooms, RoomOfLease
<1>9. RoomsKept'
  <2>0. TypeOK
    BY DEF IInv
  <2>1. SUFFICES ASSUME opened' = "in_order", NEW n \in active \cap Rents, ~Vacated(RoomOf[n])
                 PROVE  Kept(RoomOf[n])'
    BY <1>1 DEF RoomsKept, Vacated, RoomOfLease
  <2>2. Kept(RoomOf[n])
    <3>1. CASE opened = "in_order"
      BY <2>1, <3>1 DEF FaithInv, RoomsKept
    <3>2. CASE opened = "no" /\ "room_status" \in fresh
      <4>1. /\ deleted = {} /\ seen = {} /\ \A l \in AppLeases : let[l] = None
            /\ \A r \in Rooms : Live(r) => (status[r] = "occupied") = (r \in ActiveRooms)
        BY <3>2 DEF FaithInv, Opening, RoomsReconciled
      <4>2. RoomOf[n] \in Rooms /\ RoomOf[n] \in mapped /\ RoomOf[n] \in ActiveRooms
        BY <2>1, SourceAssumption DEF FaithInv, Tables, Genuine, ActiveRooms, RoomOfLease
      <4> QED
        BY <4>1, <4>2, NoneAssumption DEF Kept, RoomWithProperty, Live
    <3> QED
      BY <1>2, <2>1, <3>1, <3>2
  <2> QED
    BY <1>1, <2>2 DEF Kept, RoomWithProperty, Live
<1>10. Contracts'
  BY <1>1 DEF FaithInv, Contracts
<1> QED
  BY <1>4, <1>5, <1>7, <1>8, <1>9, <1>10 DEF FaithInv

(* The application imports nothing.                                        *)
LEMMA ServingFaith ==
    ASSUME IInv, FaithInv, Application
    PROVE  Tables' /\ FreshInOrder' /\ ImportComplete' /\ Promises' /\ Opening' /\ RoomsReconciled'
<1>0. /\ TypeOK /\ opened # "no" /\ UNCHANGED <<mapped, hung, job, reported, opened, late>>
      /\ deleted \subseteq deleted' /\ priced \subseteq priced' /\ active' \cap Rents \subseteq active
      /\ \/ UNCHANGED <<fresh, priced>>
         \/ fresh' = fresh \ {"bills"} /\ priced' # priced
  BY ServingStep DEF IInv
<1>t. \A d \in Readings : Touched(RoomOf[d]) => Touched(RoomOf[d])'
  <2>1. ASSUME NEW r \in Rooms PROVE Touched(r) => Touched(r)'
    BY <1>0, ServingStep, TouchedKept
  <2> QED
    BY <2>1, ReadingRoom DEF Touched, RoomOfLease
<1>1. Tables'
  BY <1>0 DEF FaithInv, Tables, Genuine, TenantsTogether, LeasesTogether, LatestInExport, Covers
<1>2. FreshInOrder'
  <2>1. \A k \in Stages : "bills" \notin DependsOn(k)
    BY DEF DependsOn, Stages
  <2> QED
    BY <1>0, <2>1 DEF FaithInv, FreshInOrder, TypeOK
<1>3. ImportComplete'
  <2>1. \A k \in fresh' : k \in fresh /\ k \in Stages /\ (k # "bills" \/ priced' = priced)
    BY <1>0 DEF TypeOK
  <2>2. \A k \in fresh' : Sound(k)' \subseteq Sound(k)
    BY <1>0, <1>t, <2>1, SoundShrinks
  <2> QED
    BY <1>0, <2>1, <2>2 DEF FaithInv, ImportComplete
<1>4. ASSUME NEW i \in Jobs, IsRunning(i) PROVE Promise(i)'
  <2>0. /\ Promise(i) /\ job'[i] = job[i] /\ job[i].stage \in Stages
        /\ job[i].bills \in SUBSET (Readings \X Leases)
    BY <1>0, <1>4, JobType DEF FaithInv, Promises
  <2>1. Genuine(job[i].rows)' /\ LeasesTogether(job[i].rows)' /\ Whole(job[i].stage, mapped \cup job[i].rows)'
    BY <1>0, <2>0 DEF Promise, Genuine, LeasesTogether, Whole
  <2>2. job[i].prices \subseteq priced'
    BY <1>0, <2>0 DEF Promise
  <2>3. (job[i].inOrder /\ job[i].prices = priced => Sound(job[i].stage) \subseteq mapped \cup job[i].rows)'
    <3>1. CASE priced' = priced
      BY <1>0, <1>t, <2>0, <3>1, SoundShrinks DEF Promise
    <3>2. CASE priced' # priced
      <4>1. job[i].prices # priced'
        BY <1>0, <2>0, <3>2 DEF Promise
      <4> QED
        BY <2>0, <4>1
    <3> QED
      BY <3>1, <3>2
  <2>4. \A b \in job'[i].bills : (Touched(RoomOf[b[1]]) \/ LatestInExport(b[2], b[1]))'
    <3>1. ASSUME NEW b \in job[i].bills PROVE (Touched(RoomOf[b[1]]) \/ LatestInExport(b[2], b[1]))'
      <4>1. PICK d \in Readings : d = b[1]
        BY <2>0
      <4>2. CASE Touched(RoomOf[d])
        BY <1>t, <4>1, <4>2 DEF Touched, RoomOfLease
      <4>3. CASE LatestInExport(b[2], b[1])
        BY <1>0, <4>3 DEF LatestInExport, Covers
      <4> QED
        BY <2>0, <4>1, <4>2, <4>3 DEF Promise
    <3> QED
      BY <2>0, <3>1
  <2>5. (job[i].rows \subseteq KindOf(job[i].stage))'
        /\ (job'[i].stage = "properties" /\ job'[i].rows # {} => job'[i].rows \cap Estates # {})
    BY <2>0 DEF Promise, KindOf
  <2> QED
    BY <2>0, <2>1, <2>2, <2>3, <2>4, <2>5 DEF Promise
<1>5. Promises'
  BY <1>0, <1>4 DEF FaithInv, Promises, IsRunning, Whole
<1>6. Opening' /\ RoomsReconciled'
  BY <1>0 DEF FaithInv, Opening, EligibleRoom, EligibleLease, RoomsReconciled
<1> QED
  BY <1>1, <1>2, <1>3, <1>5, <1>6

(* What is owed is owed for a lease that was made or ended.                *)
LEMMA ServingContracts ==
    ASSUME IInv, FaithInv, Application
    PROVE  Contracts'
<1>0. /\ TypeOK /\ Contracts /\ ended \subseteq ended' /\ \A n \in Rents \ ended' : span'[n] = span[n]
      /\ \A l \in AppLeases : let[l] # None => let'[l] = let[l]
  BY ServingStep DEF IInv, FaithInv
<1>1. \A m \in owed' :
          m \in owed \/ m[2] \in ended' \/ (m[2] \in AppLeases /\ let'[m[2]] # None)
  <2>1. ASSUME NEW l \in AppLeases, NEW r \in Rooms, NEW dates \in [from : Days, to : Days],
               CreateLease(l, r, dates)
        PROVE  <1>1!:
    <3>1. owed' = owed \cup {<<"occupied", l>>} /\ let'[l] = r /\ r # None
      BY <1>0, <2>1, NoneAssumption DEF CreateLease, TypeOK
    <3> QED
      BY <3>1
  <2>2. ASSUME NEW n \in Leases, NEW day \in Days, EndLease(n, day) PROVE <1>1!:
    BY <2>2 DEF EndLease
  <2>3. ASSUME owed' \subseteq owed PROVE <1>1!:
    BY <2>3
  <2> QED
    BY <2>1, <2>2, <2>3 DEF Application, ExpireLease, MarkRoom, LoseMark, ReadRoom, ReadOccupiedRooms,
       Intend, SetRoomMaintenance, CompleteRepair, Delete, DeleteRoom, DeleteProperty, SetUnitPrice, requests
<1> QED
  BY <1>0, <1>1 DEF Contracts

(* A room that is kept for an imported lease goes only with the end of     *)
(* another lease of the room: no other request may have it, and no call is *)
(* owed for it.                                                            *)
LEMMA ServingRooms ==
    ASSUME IInv, FaithInv, Application
    PROVE  RoomsKept'
<1>0. /\ TypeOK /\ Contracts /\ RoomsKept /\ UNCHANGED <<mapped, opened>> /\ ended \subseteq ended'
      /\ active' \cap Rents \subseteq active /\ \A l \in AppLeases : let[l] # None => let'[l] = let[l]
  BY ServingStep DEF IInv, FaithInv
<1> SUFFICES ASSUME opened = "in_order", NEW n \in active \cap Rents
             PROVE  (Vacated(RoomOf[n]) \/ Kept(RoomOf[n]))'
  BY <1>0 DEF RoomsKept
<1>1. PICK r \in Rooms : r = RoomOf[n]
  BY SourceAssumption
<1>2. Vacated(r) => Vacated(r)'
  BY <1>0, TouchedKept
<1> SUFFICES ASSUME ~Vacated(r) PROVE Kept(r)'
  BY <1>1, <1>2 DEF Vacated, RoomOfLease, Kept, RoomWithProperty, Live
<1>3. PICK e \in Estates : e = EstateOf[r]
  BY SourceAssumption
<1>4. /\ r \in mapped /\ {r, e} \cap deleted = {} /\ status[r] = "occupied"
      /\ \A l \in AppLeases : let[l] # r
      /\ \A op \in {"maintenance", "delete"} : <<op, r>> \notin seen /\ <<op, e>> \notin seen
  BY <1>0, <1>1, <1>3 DEF RoomsKept, Kept, RoomWithProperty, Live
<1>5. Rooms \cap Estates = {}
  BY KindAssumption
<1> DEFINE Good ==
        /\ {r, e} \cap deleted' = {} /\ status'[r] = "occupied"
        /\ \A l \in AppLeases : let'[l] # r
        /\ \A op \in {"maintenance", "delete"} : <<op, r>> \notin seen' /\ <<op, e>> \notin seen'
<1>6. SUFFICES Good
  BY <1>0, <1>3, <1>4 DEF Kept, RoomWithProperty, Live
<1>7. ASSUME NEW l \in AppLeases, NEW q \in Rooms, NEW dates \in [from : Days, to : Days],
             CreateLease(l, q, dates)
      PROVE  Good
  BY <1>0, <1>4, <1>7 DEF CreateLease, TypeOK
<1>8. ASSUME NEW m \in Leases, \/ ExpireLease(m) \/ \E day \in Days : EndLease(m, day) PROVE Good
  BY <1>4, <1>8 DEF ExpireLease, EndLease, requests
<1>9. ASSUME NEW m \in owed, MarkRoom(m) \/ LoseMark(m) PROVE Good
  <2>1. RoomOfLease(m[2]) # r
    <3>1. CASE m[2] \in ended
      BY <3>1 DEF Vacated
    <3>2. CASE m[2] \in AppLeases
      BY <1>4, <3>2, ApplicationAssumption DEF RoomOfLease
    <3> QED
      BY <1>0, <1>9, <3>1, <3>2 DEF Contracts
  <2> QED
    BY <1>0, <1>4, <1>9, <2>1 DEF MarkRoom, LoseMark, TypeOK
<1>10. ASSUME NEW q \in Rooms, NEW op \in {"maintenance", "delete"}, ReadRoom(op, q) PROVE Good
  BY <1>4, <1>5, <1>10 DEF ReadRoom, Intend
<1>11. ASSUME NEW x \in Estates, ReadOccupiedRooms(x) PROVE Good
  <2>1. x # e
    BY <1>3, <1>4, <1>11 DEF ReadOccupiedRooms, Live
  <2> QED
    BY <1>4, <1>5, <1>11, <2>1 DEF ReadOccupiedRooms, Intend
<1>12. ASSUME NEW q \in Rooms, SetRoomMaintenance(q) \/ CompleteRepair(q) PROVE Good
  BY <1>0, <1>4, <1>12 DEF SetRoomMaintenance, CompleteRepair, requests, TypeOK
<1>13. ASSUME NEW x \in Rooms \cup Estates, Delete(x) PROVE Good
  BY <1>4, <1>13 DEF Delete, requests
<1>14. ASSUME NEW x \in Estates, SetUnitPrice(x) PROVE Good
  BY <1>4, <1>14 DEF SetUnitPrice
<1> QED
  BY <1>7, <1>8, <1>9, <1>10, <1>11, <1>12, <1>13, <1>14 DEF Application, DeleteRoom, DeleteProperty

LEMMA ApplicationFaith ==
    ASSUME IInv, FaithInv, Application
    PROVE  FaithInv'
BY ServingFaith, ServingContracts, ServingRooms DEF FaithInv

LEMMA FaithStep == IInv /\ FaithInv /\ [Next]_vars => FaithInv'
<1> SUFFICES ASSUME IInv, FaithInv, [Next]_vars PROVE FaithInv'
  OBVIOUS
<1>1. ASSUME NEW j \in Jobs, Command(j) PROVE FaithInv'
  BY <1>1, BeginFaith, ImportSteps, ReconcileFaith, EndFaith DEF Command
<1> QED
  BY <1>1, CutoverFaith, ApplicationFaith DEF Next

LEMMA FaithInit == Init => FaithInv
<1> SUFFICES ASSUME Init PROVE FaithInv
  OBVIOUS
<1>1. /\ mapped = {} /\ active = {} /\ deleted = {} /\ reported = {} /\ fresh = {} /\ opened = "no"
      /\ ended = {} /\ owed = {} /\ seen = {} /\ late = {} /\ \A l \in AppLeases : let[l] = None
      /\ \A n \in Rents : span[n] = [from |-> StartDate[n], to |-> EndDate[n]]
  BY DEF Init, Leases
<1>2. \A j \in Jobs : job[j] = None
  BY DEF Init
<1>3. Tables
  BY <1>1 DEF Tables, Genuine, TenantsTogether, LeasesTogether
<1>4. Promises
  BY <1>1, <1>2 DEF Promises, IsRunning
<1>5. FreshInOrder /\ ImportComplete /\ Contracts /\ Opening /\ RoomsReconciled /\ RoomsKept
  BY <1>1 DEF FreshInOrder, ImportComplete, Contracts, Opening, RoomsReconciled, RoomsKept
<1> QED
  BY <1>3, <1>4, <1>5 DEF FaithInv

LEMMA Faithful == Spec => [](IInv /\ FaithInv)
  BY IInvInit, IInvStep, FaithInit, FaithStep, PTL DEF Spec

(* For every export, and however stages are ordered, rerun, killed or run  *)
(* at once: a stage that was run after those plan.go says it depends on    *)
(* has imported every record it can, and a bill hangs on the latest of the *)
(* export's leases that cover its month, also when more leases are         *)
(* imported after it or the application moves their dates; unless the bill *)
(* was imported after the application had let its room.                    *)
THEOREM ImportIsFaithful == Spec => []ImportFaithful
<1>1. IInv /\ FaithInv => ImportFaithful
  BY DEF FaithInv, Tables, ImportFaithful, BillOnCoveringLease
<1> QED
  BY <1>1, Faithful, PTL

(* Before the application is opened the room-status stage makes exactly    *)
(* the rooms of active leases occupied; and if it was opened after that    *)
(* stage, it keeps the room of an active imported lease until another      *)
(* lease of the room is ended, however late its calls run, whether they    *)
(* are lost, and however old the status is that a request has read.        *)
THEOREM RoomsFollow == Spec => []RoomsFollowLeases
<1>1. IInv /\ FaithInv => RoomsFollowLeases
  BY DEF FaithInv, RoomsFollowLeases, ImportedRoomsHeld, RoomsKept, Kept
<1> QED
  BY <1>1, Faithful, PTL

(* The validation: what it looks at, and the reports it asks for, are      *)
(* enough.  When it passes, every valid property and tenant of the export  *)
(* is imported, and every bill hangs on a sound lease of a live room.      *)
LEMMA SignOff ==
    ASSUME IInv, FaithInv, opened = "no", Verified
    PROVE  /\ \A d \in Readings \cap mapped :
                  RentSound(hung[d]) /\ {RoomOf[d], hung[d]} \subseteq mapped \ deleted
           /\ Sound("properties") \cup Sound("tenants") \subseteq mapped
<1>0. TypeOK /\ Genuine(mapped) /\ TargetsLive /\ ParentsLive /\ reported = Stages
  BY DEF IInv, FaithInv, Tables, Verified, ReportsWritten
<1>1. ASSUME NEW d \in Readings \cap mapped
      PROVE  RentSound(hung[d]) /\ {RoomOf[d], hung[d]} \subseteq mapped \ deleted
  <2>1. PICK n : n = hung[d]
    OBVIOUS
  <2>2. n \in Rents \cap mapped
    BY <1>1, <2>1 DEF FaithInv, Tables, Opening, LatestInExport
  <2>3. EligibleLease(n)
    BY <1>0, <2>2, GenuineEligible
  <2>4. Live(RoomOf[n]) /\ Live(EstateOf[RoomOf[n]]) /\ Live(RoomOf[d])
    BY <1>0, <1>1, <2>2 DEF ParentsLive
  <2>5. RentSound(n)
    BY <2>3, <2>4 DEF EligibleLease, EligibleRoom, RentSound, RoomSound, Live
  <2>6. n \notin deleted
    BY <1>0, <2>2 DEF TargetsLive
  <2> QED
    BY <2>1, <2>2, <2>4, <2>5, <2>6 DEF Live
<1>2. Whole("properties", mapped) /\ Whole("tenants", mapped)
  BY <1>0 DEF FaithInv, Promises, Stages
<1> QED
  BY <1>1, <1>2 DEF Whole, Sound

THEOREM SignOffMeansSound == Spec => SignOffSound
<1>1. IInv /\ FaithInv /\ [Next]_vars =>
          [~signed /\ signed' =>
             /\ \A d \in Readings \cap mapped :
                    RentSound(hung[d]) /\ {RoomOf[d], hung[d]} \subseteq mapped \ deleted
             /\ Sound("properties") \cup Sound("tenants") \subseteq mapped]_vars
  <2> SUFFICES ASSUME IInv, FaithInv, [Next]_vars, ~signed, signed'
               PROVE  /\ \A d \in Readings \cap mapped :
                             RentSound(hung[d]) /\ {RoomOf[d], hung[d]} \subseteq mapped \ deleted
                      /\ Sound("properties") \cup Sound("tenants") \subseteq mapped
    OBVIOUS
  <2>1. ValidateMigration \/ signed' = signed
    <3>1. ASSUME NEW j \in Jobs, Command(j) PROVE signed' = signed
      BY <3>1 DEF Command, Begin, ImportProperties, ImportRooms, ImportTenants, ImportLeases,
         ImportBills, ImportJournal, Import, ReconcileRoomStatus, WriteReport, Fail
    <3>2. Application \/ Cutover => signed' = signed
      BY ServingStep DEF Cutover
    <3> QED
      BY <3>1, <3>2 DEF Next, vars
  <2>2. Verified /\ opened = "no"
    BY <2>1 DEF ValidateMigration
  <2> QED
    BY <2>2, SignOff
<1> QED
  BY <1>1, Faithful, PTL DEF Spec, SignOffSound
=============================================================================
