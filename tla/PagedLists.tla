---------------------------- MODULE PagedLists ----------------------------
(* The paged list endpoints: leases, checkout reviews, tenants, the rooms  *)
(* and the tenant roster of a property, bills, journal logs, repair        *)
(* requests and users.  A caller walks one list page by page while other   *)
(* requests commit changes.                                                *)
(* Each page is a request of its own: the route's role and property checks,*)
(* then a COUNT statement, then a SELECT with ORDER BY, LIMIT and OFFSET,  *)
(* with no transaction around the two.  The caller is external: it asks    *)
(* for page after page until one comes back short.                         *)
EXTENDS Integers, FiniteSets, Functions

CONSTANTS
    N,            \* rows are numbered 1..N, the order of their ids
    Properties,   \* properties
    Roles,        \* roles of the caller: "admin", "organizer", "staff", "owner"
    MaxKey,       \* bound: sort keys are 1..MaxKey
    Limit,        \* page size
    MaxChanges,   \* bound: commits by other requests during a walk
    Absent          \* no row; no property filter

Ids == 1 .. N
Lists == {"leases", "reviews", "tenants", "rooms", "roster", "bills",
          "journals", "repairs", "users"}

VARIABLES
    list,     \* the list that is walked
    who,      \* the caller: [role, props]: the properties assigned to, or owned by, the caller
    filter,   \* the property_id parameter, or Absent
    row,      \* row[r] = Absent, or [in, key]: the properties it belongs to and its sort key
    live,     \* properties that are not deleted
    walk,     \* [phase, page, total]: the request in progress and the total it counted
    shown,    \* shown[r]: how often the caller has been shown r
    changes   \* commits so far (for the bound)

(* Bounds are bounds, a page has room for a row, and Absent none of them.   *)
ASSUME SizesAssumption ==
    /\ N \in Nat /\ Limit \in Nat \ {0} /\ MaxKey \in Nat /\ MaxChanges \in Nat
    /\ Absent \notin Properties \cup [in : SUBSET Properties, key : 1 .. MaxKey]

listVars == <<list, who, filter, row, live, walk, shown, changes>>

(* What a row of each list belongs to: a tenant to the properties of all   *)
(* live leases, a user to none, anything else to one property.             *)
Rows(l) == [in  : IF l = "tenants" THEN SUBSET Properties
                  ELSE IF l = "users" THEN {{}} ELSE {{p} : p \in Properties},
            key : 1 .. MaxKey]

---------------------------------------------------------------------------
(* Route checks *)

AllowedRoles == CASE list \in {"rooms", "roster", "bills"} -> {"admin", "organizer", "staff", "owner"}
                  [] OTHER -> {"admin", "organizer", "staff"}

(* The owner's lookup finds only live properties. *)
OwnerOf(p) == p \in live /\ p \in who.props

MayUse(p) == \/ who.role = "admin"
             \/ who.role = "owner" /\ OwnerOf(p)
             \/ who.role \in {"organizer", "staff"} /\ p \in who.props

MayList(f) == who.role \in AllowedRoles /\ (f # Absent => MayUse(f))

---------------------------------------------------------------------------
(* The list queries: which rows a SELECT, and the COUNT before it, keep *)

(* The rows of scope: organizers and staff see their assigned properties.  *)
InScope(p) == who.role \in {"organizer", "staff"} => p \in who.props
Matches(p, f) == f # Absent => p = f
Present == {r \in Ids : row[r] # Absent}
Scoped(f) == {r \in Present : \E p \in row[r].in : InScope(p) /\ Matches(p, f)}

LeaseRows(f)   == Scoped(f)
ReviewRows(f)  == Scoped(f)
JournalRows(f) == Scoped(f)
RepairRows(f)  == Scoped(f)
RoomRows(f)    == {r \in Present : row[r].in = {f}}

(* The leases a tenant row is joined with; an admin's unfiltered list does *)
(* not join, and shows tenants without a lease as well.                    *)
Joined(r, f) == {p \in row[r].in : InScope(p) /\ Matches(p, f)}
TenantRows(f) == {r \in Present : Joined(r, f) # {} \/ (who.role = "admin" /\ f = Absent)}
TenantTotal(f) == Cardinality(TenantRows(f))

BillRowsOfDeleted(f) == {r \in Present : \E p \in row[r].in :
                    /\ InScope(p) /\ Matches(p, f)
                    /\ who.role = "owner" => p \in who.props}

(* An owner's bills are those of the live properties the caller owns. *)
BillRows(f) == {r \in Present : \E p \in row[r].in :
                    /\ InScope(p) /\ Matches(p, f)
                    /\ who.role = "owner" => p \in who.props /\ p \in live}

(* The rooms of a live property, all of them or those that are let: a row  *)
(* is a room that is shown, and comes or goes with its lease as well.      *)
RosterRows(f) == {r \in Present : /\ row[r].in = {f} /\ f \in live /\ InScope(f)
                                  /\ who.role = "owner" => f \in who.props}

UserRows == Present

---------------------------------------------------------------------------
(* ORDER BY: newest first.  Some lists end ties by the id; in the others   *)
(* the rows of one transaction, or of one due date, come in any order, and *)
(* in another order for the next page.                                     *)

ByKey == {e \in Ids \X Ids : row[e[1]].key > row[e[2]].key}
ByKeyThenId == ByKey \cup {e \in Ids \X Ids : row[e[1]].key = row[e[2]].key /\ e[1] > e[2]}

Arrangements(rows, before) ==
    {s \in [1 .. Cardinality(rows) -> rows] :
        \A i, j \in DOMAIN s : i < j => s[i] # s[j] /\ <<s[j], s[i]>> \notin before}

OffsetOfNextPage(page) == page * Limit
Offset(page) == (page - 1) * Limit

(* One request for a page: refused by the route, or counted; then the page *)
(* is read, in whatever state the tables are in by then.                   *)
Serve(rows, total, before) ==
    \/ /\ walk.phase = "asking"
       /\ walk' = IF MayList(filter) THEN [walk EXCEPT !.phase = "counted", !.total = total]
                                     ELSE [walk EXCEPT !.phase = "refused"]
       /\ UNCHANGED shown
    \/ /\ walk.phase = "counted"
       /\ \E s \in Arrangements(rows, before) :
            LET page == {s[i] : i \in DOMAIN s \cap (Offset(walk.page) + 1 .. Offset(walk.page) + Limit)}
            IN  /\ shown' = [r \in Ids |-> IF r \in page THEN shown[r] + 1 ELSE shown[r]]
                /\ walk' = IF Cardinality(page) < Limit THEN [walk EXCEPT !.phase = "done"]
                           ELSE [walk EXCEPT !.phase = "asking", !.page = @ + 1]

Walks(l) == list = l /\ UNCHANGED <<list, who, filter, row, live, changes>>

(* The repositories: the same filter in both statements.                   *)
LeasePage == Serve(LeaseRows(filter), Cardinality(LeaseRows(filter)), ByKey)
ReviewPage == Serve(ReviewRows(filter), Cardinality(ReviewRows(filter)), ByKeyThenId)
TenantPage == Serve(TenantRows(filter), TenantTotal(filter), ByKey)
BillPage == Serve(BillRows(filter), Cardinality(BillRows(filter)), ByKey)
JournalPage == Serve(JournalRows(filter), Cardinality(JournalRows(filter)), ByKeyThenId)
RepairPage == Serve(RepairRows(filter), Cardinality(RepairRows(filter)), ByKeyThenId)
UserPage == Serve(UserRows, Cardinality(UserRows), ByKeyThenId)
RosterPage == Serve(RosterRows(filter), Cardinality(RosterRows(filter)), ByKeyThenId)
RoomPage == Serve(RoomRows(filter), Cardinality(RoomRows(filter)), ByKey)

ListLeases == Walks("leases") /\ LeasePage
ListLeaseCheckoutReviews == Walks("reviews") /\ ReviewPage
ListTenants == Walks("tenants") /\ TenantPage
ListBills == Walks("bills") /\ BillPage
ListJournalLogs == Walks("journals") /\ JournalPage
ListRepairRequests == Walks("repairs") /\ RepairPage
ListUsers == Walks("users") /\ UserPage
ListTenantLeaseRoster == Walks("roster") /\ RosterPage

(* An empty page of rooms is "not found" when the property is deleted. *)
ListPropertyRooms ==
    /\ Walks("rooms")
    /\ \/ /\ RoomPage
          /\ (walk.phase = "counted" /\ shown' = shown => filter \in live)
       \/ /\ walk.phase = "counted" /\ filter \notin live
          /\ Cardinality(RoomRows(filter)) <= Offset(walk.page)
          /\ walk' = [walk EXCEPT !.phase = "refused"]
          /\ UNCHANGED shown

---------------------------------------------------------------------------
(* Reading one row by its id *)

LeaseOpens(r) == \E p \in row[r].in : MayUse(p) /\ InScope(p)
BillOpens(r) == \E p \in row[r].in : MayUse(p) /\ InScope(p) /\ (who.role = "owner" => p \in who.props \cap live)
TenantOpens(r) == who.role = "admin" \/ \E p \in row[r].in : InScope(p)
RoomOpens(r) == \E p \in row[r].in : MayUse(p)
JournalOpens(r) == \E p \in row[r].in : MayUse(p)
RepairOpens(r) == \E p \in row[r].in : MayUse(p)

(* A roster is read together with its property. *)
RosterOpens(r) == \E p \in row[r].in : MayUse(p) /\ p \in live

---------------------------------------------------------------------------
(* Commits by other requests while the walk is on; what was committed      *)
(* before its first statement is part of the initial state.                *)

Commit == /\ walk.phase = "counted" \/ (walk.phase = "asking" /\ walk.page > 1)
          /\ changes < MaxChanges /\ changes' = changes + 1
          /\ UNCHANGED <<list, who, filter, walk, shown>>

(* created_at is the time a transaction began, and a bill's due date any:  *)
(* a new row may sort anywhere.                                            *)
Appear == \E r \in Ids, new \in Rows(list) :
    Commit /\ row[r] = Absent /\ row' = [row EXCEPT ![r] = new] /\ UNCHANGED live

Vanish == \E r \in Ids :
    Commit /\ row[r] # Absent /\ row' = [row EXCEPT ![r] = Absent] /\ UNCHANGED live

(* An update of an ended lease (its deposit, its settlement) puts its      *)
(* review in front of all others.                                          *)
Touch == \E r \in Ids, k \in 1 .. MaxKey :
    /\ Commit /\ list = "reviews" /\ row[r] # Absent
    /\ \A s \in Present : row[s].key < k
    /\ row' = [row EXCEPT ![r].key = k] /\ UNCHANGED live

(* A tenant signs a lease in another property. *)
Sign == \E r \in Ids, p \in Properties :
    /\ Commit /\ list = "tenants" /\ row[r] # Absent /\ p \notin row[r].in
    /\ row' = [row EXCEPT ![r].in = @ \cup {p}] /\ UNCHANGED live

(* The roster is in the order of the rooms' names. *)
Rename == \E r \in Ids, k \in 1 .. MaxKey :
    /\ Commit /\ list = "roster" /\ row[r] # Absent /\ k # row[r].key
    /\ row' = [row EXCEPT ![r].key = k] /\ UNCHANGED live

DeleteProperty == \E p \in live : Commit /\ live' = live \ {p} /\ UNCHANGED row

---------------------------------------------------------------------------
WalkInit ==
    /\ list \in Lists
    /\ who \in [role : Roles, props : SUBSET Properties]
    /\ who.role = "admin" => who.props = {}
    /\ filter \in (IF list \in {"rooms", "roster"} THEN Properties
                   ELSE IF list = "users" THEN {Absent} ELSE Properties \cup {Absent})
    /\ row \in [Ids -> Rows(list) \cup {Absent}]
    /\ live = Properties
    /\ walk = [phase |-> "asking", page |-> 1, total |-> 0]
    /\ shown = [r \in Ids |-> 0]
    /\ changes = 0

PageRequest ==
    \/ ListLeases \/ ListLeaseCheckoutReviews \/ ListTenants \/ ListPropertyRooms
    \/ ListTenantLeaseRoster \/ ListBills \/ ListJournalLogs \/ ListRepairRequests \/ ListUsers
Change == Appear \/ Vanish \/ Touch \/ Rename \/ Sign \/ DeleteProperty

WalkNext == PageRequest \/ Change
WalkSpec == WalkInit /\ [][WalkNext]_listVars

---------------------------------------------------------------------------
Listed(f) == CASE list = "leases"   -> LeaseRows(f)
               [] list = "reviews"  -> ReviewRows(f)
               [] list = "tenants"  -> TenantRows(f)
               [] list = "rooms"    -> RoomRows(f)
               [] list = "roster"   -> RosterRows(f)
               [] list = "bills"    -> BillRows(f)
               [] list = "journals" -> JournalRows(f)
               [] list = "repairs"  -> RepairRows(f)
               [] list = "users"    -> UserRows

Opens(r) == CASE list \in {"leases", "reviews"} -> LeaseOpens(r)
              [] list = "tenants"  -> TenantOpens(r)
              [] list = "rooms"    -> RoomOpens(r)
              [] list = "roster"   -> RosterOpens(r)
              [] list = "bills"    -> BillOpens(r)
              [] list = "journals" -> JournalOpens(r)
              [] list = "repairs"  -> RepairOpens(r)
              [] list = "users"    -> TRUE

(* The types of the variables; a page number never runs past the rows.     *)
WalkTypeOK ==
    /\ list \in Lists /\ live \subseteq Properties
    /\ \A r \in Present : row[r] \in Rows(list)
    /\ walk \in [phase : {"asking", "counted", "done", "refused"},
                 page : 1 .. N + 1, total : 0 .. N]
    /\ shown \in [Ids -> 0 .. N + 1]
    /\ changes \in 0 .. MaxChanges

(* The lists and the single reads decide access in different places: the   *)
(* queries' own conditions, and the route's lookup of the row's property.  *)
(* They agree: what some list a caller may ask for contains is what the    *)
(* same caller can open by its id, also after a property was deleted.      *)
ListedIsReachable ==
    who.role \in AllowedRoles =>
        UNION {Listed(f) : f \in {g \in Properties \cup (IF list \in {"rooms", "roster"} THEN {} ELSE {Absent}) : MayList(g)}}
            = {r \in Present : Opens(r)}
===========================================================================
