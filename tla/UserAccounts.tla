---------------------------- MODULE UserAccounts ----------------------------
(***************************************************************************)
(* The accounts of the people who use the application.                     *)
(*                                                                         *)
(* An account is kept in two stores: the users table, which says what its  *)
(* user may do, and the identity provider, which knows the user's e-mail   *)
(* address and keeps a copy of role and assigned properties as claims.     *)
(* Every command writes one store after the other; no transaction spans    *)
(* them, and none locks the row it has read.  call[q] is the request that  *)
(* slot q is serving.                                                      *)
(***************************************************************************)
EXTENDS Naturals

CONSTANTS
    Emails,      \* e-mail addresses, one person each
    Uids,        \* ids of the provider's identities (a bound)
    Properties,
    Roles,       \* the roles given to users (a bound)
    Founder,     \* the administrator the system starts with
    FounderUid,
    Reqs,        \* slots of concurrent requests
    None

ASSUME FounderAssumption == Founder \in Emails /\ FounderUid \in Uids

ASSUME RolesAssumption == Roles \subseteq {"admin", "organizer", "staff", "owner"} /\ "admin" \in Roles

Row == [uid : Uids, role : Roles, assigned : SUBSET Properties]

VARIABLES
    identity,   \* identity[u]: the e-mail of the provider's identity u
    claims,     \* claims[u]: the row that was last written as u's claims
    users,      \* users[e]: the row of e that is not deleted
    call,       \* call[q]: the request of slot q
    asked,      \* history: asked[e]: the role last asked for, None after overlapping edits
    unsynced,   \* history: uids whose claims were not written, or in an overlap
    lost,       \* history: uids whose row is not known to be gone
    stranded,   \* history: uids whose identity a command left behind
    overruled   \* history: a former administrator, or an overlap, changed a role

accounts == <<identity, claims, users>>
histories == <<asked, unsynced, lost, stranded, overruled>>
vars == <<accounts, call, histories>>

(* An authenticated request: what its user's row said when it came in.     *)
Principal == [op : {"auth"}, id : Uids, role : Roles]

Creation == [op : {"insert", "mail", "undo_row", "undo_identity"},
             email : Emails, uid : Uids, role : Roles]

(* An edit of a user or its assignments: the row it has read and the row   *)
(* it wants.                                                               *)
Change == [op : {"update", "assign"}, id : Uids, email : Emails,
           read : Row, row : Row, sync : BOOLEAN]

(* Claims that remain to be written.                                       *)
Sync == [op : {"sync"}, row : Row]

ASSUME NoneAssumption ==
    None \notin Emails \cup Row \cup Principal \cup Creation \cup Change \cup Sync

TypeOK ==
    /\ identity \in [Uids -> Emails \cup {None}]
    /\ claims \in [Uids -> Row \cup {None}]
    /\ users \in [Emails -> Row \cup {None}]
    /\ \A d, e \in Emails : users[d] # None /\ users[e] # None /\ users[d].uid = users[e].uid => d = e
    /\ call \in [Reqs -> Principal \cup Creation \cup Change \cup Sync \cup {None}]
    /\ asked \in [Emails -> Roles \cup {None}]
    /\ unsynced \subseteq Uids /\ lost \subseteq Uids /\ stranded \subseteq Uids
    /\ overruled \in BOOLEAN

FoundersRow == [uid |-> FounderUid, role |-> "admin", assigned |-> {}]

Init ==
    /\ identity = [u \in Uids |-> IF u = FounderUid THEN Founder ELSE None]
    /\ claims = [u \in Uids |-> None]
    /\ users = [e \in Emails |-> IF e = Founder THEN FoundersRow ELSE None]
    /\ call = [q \in Reqs |-> None]
    /\ asked = [e \in Emails |-> IF e = Founder THEN "admin" ELSE None]
    /\ unsynced = {} /\ lost = {} /\ stranded = {}
    /\ overruled = FALSE

-----------------------------------------------------------------------------
Is(q, op) == call[q] # None /\ call[q].op = op

(* The middleware reads the user's row; the rest of the request believes   *)
(* what it said.                                                           *)
Authenticate(q, e) ==
    /\ call[q] = None /\ users[e] # None
    /\ call' = [call EXCEPT ![q] = [op |-> "auth", id |-> users[e].uid, role |-> users[e].role]]
    /\ UNCHANGED <<accounts, histories>>

(* A request that is refused, or finds nothing to do.                      *)
Refuse(q) ==
    /\ Is(q, "auth")
    /\ call' = [call EXCEPT ![q] = None]
    /\ UNCHANGED <<accounts, histories>>

-----------------------------------------------------------------------------
(* Creating a user: the identity, the row, the mail.                       *)

(* The provider never gives an id twice: one that nothing mentions any     *)
(* more may stand for a new one.                                           *)
Fresh(u) ==
    /\ identity[u] = None
    /\ \A e \in Emails : users[e] # None => users[e].uid # u
    /\ \A r \in Reqs :
           CASE call[r] = None -> TRUE
             [] call[r].op = "auth" -> call[r].id # u
             [] call[r].op \in {"update", "assign"} -> u \notin {call[r].id, call[r].read.uid}
             [] call[r].op = "sync" -> call[r].row.uid # u
             [] OTHER -> call[r].uid # u

CreateIdentity(q, e, role) ==
    /\ Is(q, "auth") /\ call[q].role \in {"admin", "organizer"}
    /\ \A u \in Uids : identity[u] # e
    /\ \E u \in Uids :
           /\ Fresh(u)
           /\ identity' = [identity EXCEPT ![u] = e]
           /\ unsynced' = unsynced \ {u} /\ lost' = lost \ {u} /\ stranded' = stranded \ {u}
           /\ call' = [call EXCEPT ![q] = [op |-> "insert", email |-> e, uid |-> u, role |-> role]]
    /\ UNCHANGED <<claims, users, asked, overruled>>

GoTo(q, step) ==
    call' = [call EXCEPT ![q] =
        [op |-> step, email |-> call[q].email, uid |-> call[q].uid, role |-> call[q].role]]

(* Mutation: a failed insert leaves the identity.                          *)
UndoInsertNever(q) == call' = [call EXCEPT ![q] = None]
UndoInsert(q) == GoTo(q, "undo_identity")

(* The insert commits, fails, or commits without its answer arriving.      *)
InsertUser(q) ==
    /\ Is(q, "insert")
    /\ LET e == call[q].email
           u == call[q].uid
           row == [uid |-> u, role |-> call[q].role, assigned |-> {}]
       IN  \/ /\ users[e] = None
              /\ users' = [users EXCEPT ![e] = row]
              /\ asked' = [asked EXCEPT ![e] = row.role]
              /\ \/ GoTo(q, "mail") /\ UNCHANGED lost
                 \/ UndoInsert(q) /\ lost' = lost \cup {u}
           \/ UndoInsert(q) /\ UNCHANGED <<users, asked, lost>>
    /\ UNCHANGED <<identity, claims, unsynced, stranded, overruled>>

UndoMail(q) == GoTo(q, "undo_row")

(* The reset link and the mail that carries it.                            *)
SendMail(q) ==
    /\ Is(q, "mail")
    /\ call' = [call EXCEPT ![q] = None] \/ UndoMail(q)
    /\ UNCHANGED <<accounts, histories>>

UndoRow(q) ==
    /\ Is(q, "undo_row") /\ GoTo(q, "undo_identity")
    /\ \/ users' = [users EXCEPT ![call[q].email] = None] /\ UNCHANGED lost
       \/ lost' = lost \cup {call[q].uid} /\ UNCHANGED users
    /\ overruled' = (overruled \/ users[call[q].email].role = "admin")
    /\ UNCHANGED <<identity, claims, asked, unsynced, stranded>>

(* An identity takes its claims with it.                                   *)
UndoIdentity(q) ==
    /\ Is(q, "undo_identity")
    /\ call' = [call EXCEPT ![q] = None]
    /\ LET u == call[q].uid
       IN  \/ /\ identity' = [identity EXCEPT ![u] = None]
              /\ claims' = [claims EXCEPT ![u] = None]
              /\ UNCHANGED stranded
           \/ stranded' = stranded \cup {u} /\ UNCHANGED <<identity, claims>>
    /\ UNCHANGED <<users, asked, unsynced, lost, overruled>>

-----------------------------------------------------------------------------
(* Editing a user and its assignments.                                     *)

(* Mutation: administrators may downgrade themselves.                      *)
DowngradesNobody(id, row, role) == FALSE
DowngradesSelf(id, row, role) == row.uid = id /\ row.role = "admin" /\ role # "admin"

(* Without a role, the edit is of the name, and writes the role it read.   *)
Wanted(row, role) == IF role = None THEN row.role ELSE role

ReadUser(q, e, role) ==
    /\ Is(q, "auth") /\ call[q].role = "admin" /\ users[e] # None
    /\ ~DowngradesSelf(call[q].id, users[e], Wanted(users[e], role))
    /\ call' = [call EXCEPT ![q] =
           [op |-> "update", id |-> call[q].id, email |-> e, read |-> users[e],
            row |-> [users[e] EXCEPT !.role = Wanted(users[e], role)], sync |-> role # None]]
    /\ UNCHANGED <<accounts, histories>>

ReadAssignee(q, e, properties) ==
    /\ Is(q, "auth") /\ call[q].role = "admin" /\ users[e] # None
    /\ users[e].role # "owner"
    /\ call' = [call EXCEPT ![q] =
           [op |-> "assign", id |-> call[q].id, email |-> e, read |-> users[e],
            row |-> [users[e] EXCEPT !.assigned = properties], sync |-> TRUE]]
    /\ UNCHANGED <<accounts, histories>>

(* The row after the statement of q: each sets its own columns.            *)
Written(q, current) ==
    IF call[q].op = "update" THEN [current EXCEPT !.role = call[q].row.role]
    ELSE [current EXCEPT !.assigned = call[q].row.assigned]

SyncPending(u) == \E r \in Reqs : Is(r, "sync") /\ call[r].row.uid = u

IsAdmin(id) == \E e \in Emails : users[e] # None /\ users[e].uid = id /\ users[e].role = "admin"

(* Mutation: the claims are written from the row that was read.            *)
ReturnedRead(q, row) == call[q].read
Returned(q, row) == row

WriteUser(q) ==
    /\ Is(q, "update") \/ Is(q, "assign")
    /\ LET e == call[q].email
           u == call[q].read.uid
           row == Written(q, users[e])
           stale == users[e] # call[q].read
       IN  IF users[e] # None /\ users[e].uid = u
           THEN /\ users' = [users EXCEPT ![e] = row]
                /\ call' = [call EXCEPT ![q] =
                       IF call[q].sync THEN [op |-> "sync", row |-> Returned(q, row)] ELSE None]
                /\ asked' = IF stale THEN [asked EXCEPT ![e] = None]
                            ELSE IF call[q].op = "update" /\ call[q].sync
                            THEN [asked EXCEPT ![e] = call[q].row.role] ELSE asked
                /\ unsynced' = IF stale \/ SyncPending(u)
                               THEN unsynced \cup {u} ELSE unsynced
                /\ overruled' = (overruled \/ stale \/ ~IsAdmin(call[q].id))
           ELSE /\ call' = [call EXCEPT ![q] = None]
                /\ UNCHANGED <<users, asked, unsynced, overruled>>
    /\ UNCHANGED <<identity, claims, lost, stranded>>

(* Signing in copies the row to the claims.                                *)
SyncAuth(q, e) ==
    /\ call[q] = None /\ users[e] # None
    /\ call' = [call EXCEPT ![q] = [op |-> "sync", row |-> users[e]]]
    /\ UNCHANGED <<accounts, histories>>

SetCustomClaims(q) ==
    /\ Is(q, "sync")
    /\ call' = [call EXCEPT ![q] = None]
    /\ LET row == call[q].row
       IN  \/ /\ identity[row.uid] # None
              /\ claims' = [claims EXCEPT ![row.uid] = row]
              /\ UNCHANGED unsynced
           \/ unsynced' = unsynced \cup {row.uid} /\ UNCHANGED claims
    /\ UNCHANGED <<identity, users, asked, lost, stranded, overruled>>

(* The process dies, or the caller's context ends between two writes.      *)
Crash(q) ==
    /\ call[q] # None
    /\ call' = [call EXCEPT ![q] = None]
    /\ stranded' = IF call[q].op \in {"insert", "undo_identity"}
                   THEN stranded \cup {call[q].uid} ELSE stranded
    /\ unsynced' = IF call[q].op = "sync" THEN unsynced \cup {call[q].row.uid} ELSE unsynced
    /\ UNCHANGED <<accounts, asked, lost, overruled>>

-----------------------------------------------------------------------------
Serve(q) ==
    \/ \E e \in Emails :
           \/ Authenticate(q, e) \/ SyncAuth(q, e)
           \/ \E role \in Roles : CreateIdentity(q, e, role)
           \/ \E role \in Roles \cup {None} : ReadUser(q, e, role)
           \/ \E properties \in SUBSET Properties : ReadAssignee(q, e, properties)
    \/ Refuse(q) \/ InsertUser(q) \/ SendMail(q) \/ UndoRow(q) \/ UndoIdentity(q)
    \/ WriteUser(q) \/ SetCustomClaims(q) \/ Crash(q)

Next == \E q \in Reqs : Serve(q)

Spec == Init /\ [][Next]_vars

-----------------------------------------------------------------------------
(* Properties.                                                             *)

(* Whoever has a row can sign in: creating a user never leaves a row whose *)
(* identity is gone, whichever step fails and whenever the process dies.   *)
(* Rows whose insert or deletion got no answer are exempt.                 *)
RowHasIdentity ==
    \A e \in Emails :
        users[e] # None /\ users[e].uid \notin lost => identity[users[e].uid] = e

(* An identity without a row blocks its e-mail address for good: only a    *)
(* crash or a clean-up that failed leaves one.                             *)
IdentityHasRow ==
    \A u \in Uids \ stranded : identity[u] # None =>
        LET e == identity[u]
        IN  \/ users[e] # None /\ users[e].uid = u
            \/ \E q \in Reqs : (Is(q, "insert") \/ Is(q, "undo_identity")) /\ call[q].uid = u

(* Rows and identities come and go together, though no transaction spans   *)
(* them.                                                                   *)
IdentitiesMatchRows == RowHasIdentity /\ IdentityHasRow

(* When no claims remain to be written, those that were agree with the     *)
(* row, unless commands on the user overlapped or a write failed.          *)
ClaimsFollowRow ==
    \A e \in Emails : users[e] # None =>
        LET u == users[e].uid
        IN  \/ u \in unsynced \/ claims[u] \in {None, users[e]}
            \/ SyncPending(u)

(* A user has the role that was last asked for: editing a name changes no  *)
(* role, unless the edits overlapped.                                      *)
RoleAsAsked ==
    \A e \in Emails : users[e] # None => asked[e] \in {None, users[e].role}

(* What was last asked for is in the row, and what is in the row is in the *)
(* claims.                                                                 *)
RolesAsAsked == RoleAsAsked /\ ClaimsFollowRow

(* There is always an administrator, as long as nobody changes a role who  *)
(* has lost that right since the request came in, or whose edit is stale.  *)
AdminRemains ==
    ~overruled => \E e \in Emails : users[e] # None /\ users[e].role = "admin"
=============================================================================
