---------------------------- MODULE RecordEdits ----------------------------
(***************************************************************************)
(* The edits of one descriptive record, of any of six kinds.               *)
(*                                                                         *)
(* Every edit writes all the columns of its row, those it was not asked to *)
(* change as it read them; what keeps it from writing back an old value    *)
(* differs from kind to kind.  A property's and a tenant's row is read     *)
(* without a lock and updated where its version is still the one read; a   *)
(* room's is read and updated with neither; a repair request is locked by  *)
(* the read; an FAQ item and the brand profile are written as the form the *)
(* client sends, with the version the client had fetched it with.          *)
(***************************************************************************)
EXTENDS Naturals

CONSTANTS
    Values,       \* values of a column
    Reqs,         \* slots of concurrent requests
    MaxVersion,   \* requests of a row at this version are not modelled (a bound)
    Blank,        \* a column's NULL; for an FAQ item's detail: not shown
    None

VARIABLES kind, row, txn
vars == <<kind, row, txn>>

ASSUME EditsAssumption == Blank \notin Values /\ MaxVersion \in Nat /\ None \notin Nat

Kinds == {"property", "tenant", "room", "repair", "faq", "profile"}

(* A room's name, a profile's brand name, ...: required; and the rest.     *)
Fields == {"title", "detail"}
Columns == [title : Values, detail : Values \cup {Blank}]
Asks == [title : Values] \cup [detail : Values \cup {Blank}] \cup Columns

(* What other requests and the subscribers of leases change: the room's    *)
(* occupancy, whether a property has an occupied room, the tenant's and    *)
(* the repair's status.                                                    *)
StatusOf(k) ==
    CASE k = "room" -> {"vacant", "occupied", "maintenance"}
      [] k = "property" -> {"vacant", "occupied"}
      [] k = "tenant" -> {"inactive", "active"}
      [] k = "repair" -> {"submitted", "assigned"}
      [] OTHER -> {"none"}

Row == [exists : BOOLEAN, removed : BOOLEAN, version : 0..MaxVersion,
        status : StatusOf(kind), value : Columns \cup [Fields -> {Blank}]]

NoAsk == [f \in {} |-> Blank]
Request == [op : {"edit", "create", "hide", "maintain", "remove"},
            ask : Asks \cup {NoAsk}, form : Columns, status : {"", "maintenance"},
            seen : (0..MaxVersion) \cup {None}]
Answer == [op : {"answered"}, saved : BOOLEAN, ask : Asks \cup {NoAsk}]

ASSUME NoneIsNoRequest == None \notin Request \cup Answer

TypeOK ==
    /\ kind \in Kinds
    /\ row \in Row
    /\ txn \in [Reqs -> Request \cup Answer \cup {None}]

Init ==
    /\ kind \in Kinds
    /\ row \in {r \in Row : /\ r.exists <=> r.value \in Columns
                            /\ r.exists \/ kind = "profile"
                            /\ ~r.removed /\ r.version = 0}
    /\ txn = [q \in Reqs |-> None]

Live == row.exists /\ ~row.removed
Answered(q, saved, ask) ==
    txn' = [txn EXCEPT ![q] = [op |-> "answered", saved |-> saved, ask |-> ask]]

Edited(value, ask) == [f \in Fields |-> IF f \in DOMAIN ask THEN ask[f] ELSE value[f]]

Begin(q, op, ask, form, status) ==
    /\ txn[q] = None /\ row.version < MaxVersion
    /\ txn' = [txn EXCEPT ![q] =
                 [op |-> op, ask |-> ask, form |-> form, status |-> status,
                  seen |-> IF row.exists THEN row.version ELSE None]]
    /\ UNCHANGED <<kind, row>>

-----------------------------------------------------------------------------
(* The reads.                                                              *)

ReadUnlocked(q, ask) == Live /\ Begin(q, "edit", ask, Edited(row.value, ask), "")

ReadTenant(q, ask) == kind = "tenant" /\ ReadUnlocked(q, ask)
ReadProperty(q, ask) == kind = "property" /\ ReadUnlocked(q, ask)
ReadRoom(q, ask) == kind = "room" /\ ReadUnlocked(q, ask)

(* Only the name and the status go back to the row: the aggregate is built *)
(* without the other columns, and the UPDATE writes them all.              *)
ReadForMaintenance(q) ==
    /\ kind = "room" /\ Live /\ row.status = "vacant"
    /\ Begin(q, "maintain", NoAsk, [row.value EXCEPT !.detail = Blank], "maintenance")

ReadForRemoval(q) ==
    /\ kind \in {"property", "room"} /\ Live /\ row.status = "vacant"
    /\ Begin(q, "remove", NoAsk, row.value, "")

(* The client fetches the item, or the list of items, and changes it.      *)
OpenFAQItem(q, ask) == kind = "faq" /\ ReadUnlocked(q, ask)
OpenFAQItemToHide(q) ==
    /\ kind = "faq"
    /\ Begin(q, "hide", [detail |-> Blank], [row.value EXCEPT !.detail = Blank], "")

(* The client fetches the profile, or finds none and fills in a whole one. *)
OpenProfile(q, ask) ==
    /\ kind = "profile" /\ Edited(row.value, ask) \in Columns
    /\ Begin(q, "edit", IF row.exists THEN ask ELSE Edited(row.value, ask),
             Edited(row.value, ask), "")

(* FindForUpdate finds no profile and has nothing to lock.                 *)
FindNoProfile(q) ==
    /\ txn[q] # None /\ txn[q].op = "edit" /\ kind = "profile" /\ ~row.exists
    /\ txn' = [txn EXCEPT ![q].op = "create"]
    /\ UNCHANGED <<kind, row>>

-----------------------------------------------------------------------------
(* The writes, each the last statement of its transaction.                 *)

(* The WHERE of an UPDATE that compares the version; of one that does not. *)
(* Mutations: no version compared; the row found even when it is removed.  *)
LiveOnly(q) == Live
SameVersion(q) == Live /\ row.version = txn[q].seen
VersionOnly(q) == row.exists
Found(q) == Live

(* CASE WHEN $3 = '' THEN status ELSE $3 END.                              *)
StatusOrKept(status) == IF status = "" THEN row.status ELSE status

(* q's statement writes its form when its WHERE finds the row, and is told *)
(* that there is no such row otherwise.                                    *)
Write(q, op, found, version) ==
    /\ txn[q] # None /\ txn[q].op = op
    /\ row' = IF found
              THEN [row EXCEPT !.value = txn[q].form, !.version = version,
                               !.status = StatusOrKept(txn[q].status)]
              ELSE row
    /\ Answered(q, found, txn[q].ask)
    /\ UNCHANGED kind

UpdateProperty(q) ==
    kind = "property" /\ Write(q, "edit", SameVersion(q), row.version + 1)
UpdateTenant(q) ==
    kind = "tenant" /\ Write(q, "edit", SameVersion(q), row.version + 1)
UpdateRoom(q) ==
    kind = "room" /\ Write(q, "edit", Found(q), row.version)
SetRoomMaintenance(q) ==
    kind = "room" /\ Write(q, "maintain", Found(q), row.version)

(* The lock is taken, the version the client sends compared, in one go.    *)
UpdateFAQItem(q) ==
    kind = "faq" /\ Write(q, "edit", SameVersion(q), row.version + 1)
DeactivateFAQItem(q) ==
    kind = "faq" /\ Write(q, "hide", SameVersion(q), row.version + 1)
UpdateProfile(q) ==
    kind = "profile" /\ row.exists /\ Write(q, "edit", SameVersion(q), row.version + 1)

(* The singleton's unique key refuses a second profile.                    *)
CreateProfile(q) ==
    /\ txn[q] # None /\ txn[q].op = "create"
    /\ row' = IF row.exists THEN row
              ELSE [row EXCEPT !.exists = TRUE, !.value = txn[q].form, !.version = 1]
    /\ Answered(q, ~row.exists, txn[q].ask)
    /\ UNCHANGED kind

Remove(q, found, version) ==
    /\ txn[q] # None /\ txn[q].op = "remove"
    /\ row' = IF found THEN [row EXCEPT !.removed = TRUE, !.version = version] ELSE row
    /\ Answered(q, found, NoAsk)
    /\ UNCHANGED kind
DeleteProperty(q) == kind = "property" /\ Remove(q, SameVersion(q), row.version + 1)
DeleteRoom(q) == kind = "room" /\ Remove(q, Found(q), row.version)

(* The aggregate takes what is given, and keeps a title that is not.       *)
RepairForm(ask) == Edited(row.value, ask)

(* FOR UPDATE keeps every other request away until the commit.             *)
EditRepair(q, ask) ==
    /\ kind = "repair" /\ Live /\ txn[q] = None
    /\ row' = [row EXCEPT !.value = RepairForm(ask)]
    /\ Answered(q, TRUE, ask)
    /\ UNCHANGED kind

DeleteRepair(q) ==
    /\ kind = "repair" /\ Live /\ txn[q] = None
    /\ row' = [row EXCEPT !.removed = TRUE]
    /\ Answered(q, TRUE, NoAsk)
    /\ UNCHANGED kind

Return(q) ==
    /\ txn[q] # None /\ txn[q].op = "answered"
    /\ txn' = [txn EXCEPT ![q] = None]
    /\ UNCHANGED <<kind, row>>

(* Leases and repairs write the status column only, whatever the version.  *)
ChangeStatus(s) ==
    /\ Live /\ s \in StatusOf(kind) \ {"maintenance", row.status}
    /\ row' = [row EXCEPT !.status = s]
    /\ UNCHANGED <<kind, txn>>

Next ==
    \/ \E q \in Reqs :
        \/ \E ask \in Asks :
            \/ ReadTenant(q, ask) \/ ReadProperty(q, ask) \/ ReadRoom(q, ask)
            \/ OpenFAQItem(q, ask) \/ OpenProfile(q, ask) \/ EditRepair(q, ask)
        \/ ReadForMaintenance(q) \/ ReadForRemoval(q) \/ OpenFAQItemToHide(q)
        \/ UpdateProperty(q) \/ UpdateTenant(q) \/ UpdateRoom(q) \/ SetRoomMaintenance(q)
        \/ UpdateFAQItem(q) \/ DeactivateFAQItem(q)
        \/ UpdateProfile(q) \/ FindNoProfile(q) \/ CreateProfile(q)
        \/ DeleteProperty(q) \/ DeleteRoom(q) \/ DeleteRepair(q) \/ Return(q)
    \/ \E s \in StatusOf(kind) : ChangeStatus(s)

Spec == Init /\ [][Next]_vars

-----------------------------------------------------------------------------
(* A removed record stays as it was when it was removed: no edit that read *)
(* it before, and no late event of a lease, writes to it.                  *)
RemovedStays == [][row.removed => row' = row]_vars
=============================================================================
