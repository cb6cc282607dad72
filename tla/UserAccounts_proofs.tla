------------------------ MODULE UserAccounts_proofs ------------------------
(* Proofs about UserAccounts, for every set of people, ids and requests.   *)
EXTENDS UserAccounts, TLAPS

Requests == Principal \cup Creation \cup Change \cup Sync
Creating(q) == call[q] # None /\ call[q].op \in {"insert", "mail", "undo_row", "undo_identity"}
NoRowOf(u) == \A e \in Emails : users[e] # None => users[e].uid # u

(* The identity of an unfinished creation is its own; it has no row before *)
(* the insert, none but the row it inserted after it, and none that is     *)
(* known when it is about to be deleted.                                   *)
Owns(q) ==
    LET u == call[q].uid
    IN  /\ identity[u] = call[q].email
        /\ \A e \in Emails : users[e] # None /\ users[e].uid = u => e = call[q].email
        /\ Is(q, "insert") => NoRowOf(u)
        /\ Is(q, "undo_identity") => NoRowOf(u) \/ u \in lost

IInv ==
    /\ TypeOK /\ RowHasIdentity
    /\ \A q \in Reqs : Creating(q) => Owns(q)
    /\ \A q, r \in Reqs : Creating(q) /\ Creating(r) /\ call[q].uid = call[r].uid => q = r

(* What a slot serves, by the operation it names.                          *)
LEMMA CallKinds ==
    ASSUME TypeOK, NEW q \in Reqs, call[q] # None
    PROVE  /\ call[q].op = "auth" => call[q] \in Principal
           /\ Creating(q) => call[q] \in Creation
           /\ call[q].op \in {"update", "assign"} => call[q] \in Change
           /\ call[q].op = "sync" => call[q] \in Sync
<1>1. call[q] \in Requests
  BY DEF TypeOK, Requests
<1> QED
  BY <1>1 DEF Requests, Creating, Principal, Creation, Change, Sync

LEMMA CreationKind ==
    ASSUME TypeOK, NEW q \in Reqs, Creating(q)
    PROVE  call[q] \in Creation
BY CallKinds DEF Creating

(***************************************************************************)
(* Steps that leave the identities and the ids of the rows alone and end   *)
(* no creation but by forgetting it.                                       *)
(***************************************************************************)
LEMMA Frame ==
    ASSUME IInv, TypeOK', UNCHANGED <<identity, lost>>,
           \A e \in Emails : users'[e] # None => users[e] # None /\ users'[e].uid = users[e].uid,
           NEW q \in Reqs, NEW c,
           call' = [call EXCEPT ![q] = c],
           c = None \/ c.op \notin {"insert", "mail", "undo_row", "undo_identity"}
    PROVE  IInv'
<1>1. \A r \in Reqs : Creating(r)' => r # q /\ Creating(r) /\ call'[r] = call[r]
  BY DEF IInv, TypeOK, Creating
<1>2. \A r \in Reqs : Creating(r)' => Owns(r)'
  BY <1>1 DEF IInv, Owns, Is, NoRowOf
<1>3. RowHasIdentity'
  BY DEF IInv, RowHasIdentity
<1> QED
  BY <1>1, <1>2, <1>3 DEF IInv

(***************************************************************************)
(* Requests that only read.                                                *)
(***************************************************************************)
LEMMA ReadSteps ==
    ASSUME IInv, NEW q \in Reqs, NEW e \in Emails,
           \/ Authenticate(q, e) \/ SyncAuth(q, e) \/ Refuse(q)
           \/ \E role \in Roles \cup {None} : ReadUser(q, e, role)
           \/ \E properties \in SUBSET Properties : ReadAssignee(q, e, properties)
    PROVE  IInv'
<1>0. TypeOK
  BY DEF IInv
<1> DEFINE Other(c) == c = None \/ (c \in Principal \cup Change \cup Sync)
<1>1. CASE Authenticate(q, e)
  <2>1. PICK c : call' = [call EXCEPT ![q] = c] /\ c = [op |-> "auth", id |-> users[e].uid, role |-> users[e].role]
    BY <1>1 DEF Authenticate
  <2>2. c \in Principal
    BY <1>0, <1>1, <2>1 DEF Authenticate, TypeOK, Row, Principal
  <2>3. TypeOK'
    BY <1>0, <1>1, <2>1, <2>2 DEF Authenticate, TypeOK, accounts, histories
  <2> QED
    BY <1>1, <2>1, <2>2, <2>3, Frame DEF Authenticate, accounts, histories
<1>2. CASE SyncAuth(q, e)
  <2>1. PICK c : call' = [call EXCEPT ![q] = c] /\ c = [op |-> "sync", row |-> users[e]]
    BY <1>2 DEF SyncAuth
  <2>2. c \in Sync
    BY <1>0, <1>2, <2>1 DEF SyncAuth, TypeOK, Sync
  <2>3. TypeOK'
    BY <1>0, <1>2, <2>1, <2>2 DEF SyncAuth, TypeOK, accounts, histories
  <2> QED
    BY <1>2, <2>1, <2>2, <2>3, Frame DEF SyncAuth, accounts, histories
<1>3. CASE Refuse(q)
  <2>1. TypeOK'
    BY <1>0, <1>3 DEF Refuse, TypeOK, accounts, histories
  <2> QED
    BY <1>3, <2>1, Frame DEF Refuse, accounts, histories
<1>4. ASSUME NEW role \in Roles \cup {None}, ReadUser(q, e, role)
      PROVE  IInv'
  <2>1. PICK c : /\ call' = [call EXCEPT ![q] = c]
                 /\ c = [op |-> "update", id |-> call[q].id, email |-> e, read |-> users[e],
                         row |-> [users[e] EXCEPT !.role = Wanted(users[e], role)],
                         sync |-> role # None]
    BY <1>4 DEF ReadUser
  <2>2. users[e] \in Row /\ call[q].id \in Uids
    BY <1>0, <1>4, CallKinds DEF ReadUser, Is, TypeOK, Principal
  <2>3. [users[e] EXCEPT !.role = Wanted(users[e], role)] \in Row
    BY <2>2 DEF Row, Wanted
  <2>4. c \in Change
    BY <2>1, <2>2, <2>3 DEF Change
  <2>5. TypeOK'
    BY <1>0, <1>4, <2>1, <2>4 DEF ReadUser, TypeOK, accounts, histories
  <2> QED
    BY <1>4, <2>1, <2>5, Frame DEF ReadUser, accounts, histories
<1>5. ASSUME NEW properties \in SUBSET Properties, ReadAssignee(q, e, properties)
      PROVE  IInv'
  <2>1. PICK c : /\ call' = [call EXCEPT ![q] = c]
                 /\ c = [op |-> "assign", id |-> call[q].id, email |-> e, read |-> users[e],
                         row |-> [users[e] EXCEPT !.assigned = properties], sync |-> TRUE]
    BY <1>5 DEF ReadAssignee
  <2>2. users[e] \in Row /\ call[q].id \in Uids
    BY <1>0, <1>5, CallKinds DEF ReadAssignee, Is, TypeOK, Principal
  <2>3. [users[e] EXCEPT !.assigned = properties] \in Row
    BY <2>2 DEF Row
  <2>4. c \in Change
    BY <2>1, <2>2, <2>3 DEF Change
  <2>5. TypeOK'
    BY <1>0, <1>5, <2>1, <2>4 DEF ReadAssignee, TypeOK, accounts, histories
  <2> QED
    BY <1>5, <2>1, <2>5, Frame DEF ReadAssignee, accounts, histories
<1> QED
  BY <1>1, <1>2, <1>3, <1>4, <1>5

(***************************************************************************)
(* The steps of a creation.                                                *)
(***************************************************************************)
LEMMA CreateIdentityStep ==
    ASSUME IInv, NEW q \in Reqs, NEW e \in Emails, NEW role \in Roles, CreateIdentity(q, e, role)
    PROVE  IInv'
<1>0. TypeOK
  BY DEF IInv
<1>1. PICK u \in Uids :
          /\ Fresh(u)
          /\ identity' = [identity EXCEPT ![u] = e]
          /\ unsynced' = unsynced \ {u} /\ lost' = lost \ {u} /\ stranded' = stranded \ {u}
          /\ call' = [call EXCEPT ![q] = [op |-> "insert", email |-> e, uid |-> u, role |-> role]]
  BY DEF CreateIdentity
<1>2. PICK c : c = [op |-> "insert", email |-> e, uid |-> u, role |-> role] /\ call' = [call EXCEPT ![q] = c]
  BY <1>1
<1>3. c \in Creation
  BY <1>2 DEF Creation
<1>4. TypeOK'
  BY <1>0, <1>1, <1>2, <1>3 DEF TypeOK, CreateIdentity
<1>5. identity[u] = None /\ NoRowOf(u) /\ UNCHANGED users
  BY <1>1 DEF Fresh, NoRowOf, CreateIdentity
<1>6. RowHasIdentity'
  BY <1>0, <1>1, <1>5 DEF IInv, RowHasIdentity, NoRowOf, TypeOK
<1>7. ASSUME NEW r \in Reqs, r # q, Creating(r)'
      PROVE  Creating(r) /\ call'[r] = call[r] /\ call[r].uid # u /\ Owns(r)'
  <2>1. Creating(r) /\ call'[r] = call[r]
    BY <1>0, <1>2, <1>7 DEF TypeOK, Creating
  <2>2. call[r] \in Creation
    BY <1>0, <2>1, CallKinds DEF Creating
  <2>3. call[r].uid # u
    BY <1>1, <2>1, <2>2 DEF Fresh, Creating
  <2>4. Owns(r)
    BY <2>1 DEF IInv
  <2> QED
    BY <1>0, <1>1, <1>5, <2>1, <2>2, <2>3, <2>4 DEF Owns, Is, NoRowOf, TypeOK, Creation
<1>8. call'[q] = c /\ Owns(q)'
  BY <1>0, <1>1, <1>2, <1>5 DEF Owns, Is, NoRowOf, TypeOK
<1> QED
  BY <1>2, <1>4, <1>6, <1>7, <1>8 DEF IInv

LEMMA GoToType ==
    ASSUME TypeOK, NEW q \in Reqs, Creating(q), NEW step \in {"mail", "undo_row", "undo_identity"},
           GoTo(q, step)
    PROVE  /\ call' \in [Reqs -> Requests \cup {None}]
           /\ call'[q] \in Creation /\ call'[q].op = step
           /\ call'[q].uid = call[q].uid /\ call'[q].email = call[q].email
           /\ \A r \in Reqs \ {q} : call'[r] = call[r]
<1>1. call[q] \in Creation
  BY CreationKind
<1>2. PICK c : /\ c = [op |-> step, email |-> call[q].email, uid |-> call[q].uid, role |-> call[q].role]
               /\ call' = [call EXCEPT ![q] = c]
  BY DEF GoTo
<1>3. c \in Creation
  BY <1>1, <1>2 DEF Creation
<1>4. call \in [Reqs -> Requests \cup {None}]
  BY DEF TypeOK, Requests
<1> QED
  BY <1>2, <1>3, <1>4 DEF Requests

(* A creation goes on: the others keep what they own.                      *)
LEMMA GoToFrame ==
    ASSUME IInv, TypeOK', NEW q \in Reqs, Creating(q),
           NEW step \in {"mail", "undo_row", "undo_identity"}, GoTo(q, step),
           UNCHANGED identity, lost \subseteq lost',
           \A e \in Emails : users'[e] # None =>
               \/ users[e] # None /\ users'[e].uid = users[e].uid
               \/ e = call[q].email /\ users'[e].uid = call[q].uid,
           step = "undo_identity" =>
               \/ \A e \in Emails : users'[e] # None => users'[e].uid # call[q].uid
               \/ call[q].uid \in lost'
    PROVE  IInv'
<1>0. TypeOK /\ Owns(q)
  BY DEF IInv
<1>1. call[q] \in Creation
  BY <1>0, CreationKind
<1>2. call'[q] # None /\ call'[q] \in Creation /\ call'[q].op = step
      /\ call'[q].uid = call[q].uid /\ call'[q].email = call[q].email
      /\ \A r \in Reqs \ {q} : call'[r] = call[r]
  BY <1>0, GoToType, NoneAssumption
<1>3. Owns(q)'
  <2>1. \A e \in Emails : users'[e] # None /\ users'[e].uid = call[q].uid => e = call[q].email
    BY <1>0, <1>1 DEF Owns
  <2>2. ~Is(q, "insert")' /\ (Is(q, "undo_identity")' => step = "undo_identity")
    BY <1>2 DEF Is
  <2> QED
    BY <1>0, <1>2, <2>1, <2>2 DEF Owns, NoRowOf
<1>4. ASSUME NEW r \in Reqs, r # q, Creating(r)'
      PROVE  Creating(r) /\ call'[r] = call[r] /\ call[r].uid # call[q].uid /\ Owns(r)'
  <2>1. Creating(r) /\ call'[r] = call[r]
    BY <1>2, <1>4 DEF Creating
  <2>2. call[r].uid # call[q].uid /\ Owns(r)
    BY <1>4, <2>1 DEF IInv
  <2>3. \A e \in Emails : users'[e] # None /\ users'[e].uid = call[r].uid =>
            users[e] # None /\ users[e].uid = call[r].uid
    BY <2>2
  <2> QED
    BY <2>1, <2>2, <2>3 DEF Owns, Is, NoRowOf
<1>5. RowHasIdentity'
  BY <1>0 DEF IInv, RowHasIdentity, Owns
<1>6. Creating(q)'
  BY <1>2 DEF Creating
<1> QED
  BY <1>2, <1>3, <1>4, <1>5, <1>6 DEF IInv

LEMMA InsertUserStep ==
    ASSUME IInv, NEW q \in Reqs, InsertUser(q)
    PROVE  IInv'
<1>0. TypeOK /\ Creating(q) /\ Is(q, "insert")
  BY DEF IInv, InsertUser, Is, Creating
<1>1. call[q] \in Creation /\ Owns(q) /\ NoRowOf(call[q].uid)
  BY <1>0, CreationKind DEF IInv, Owns
<1>2. PICK row : row = [uid |-> call[q].uid, role |-> call[q].role, assigned |-> {}]
  OBVIOUS
<1>3. row \in Row /\ row # None
  BY <1>1, <1>2, NoneAssumption DEF Row, Creation
<1>4. CASE /\ users[call[q].email] = None
           /\ users' = [users EXCEPT ![call[q].email] = row]
           /\ asked' = [asked EXCEPT ![call[q].email] = row.role]
           /\ \/ GoTo(q, "mail") /\ UNCHANGED lost
              \/ GoTo(q, "undo_identity") /\ lost' = lost \cup {call[q].uid}
  <2>1. PICK step \in {"mail", "undo_identity"} :
            /\ GoTo(q, step)
            /\ step = "mail" => UNCHANGED lost
            /\ step = "undo_identity" => lost' = lost \cup {call[q].uid}
    BY <1>4
  <2>2. call' \in [Reqs -> Requests \cup {None}]
    BY <1>0, <2>1, GoToType
  <2>3. TypeOK'
    BY <1>0, <1>1, <1>2, <1>3, <1>4, <2>1, <2>2 DEF TypeOK, InsertUser, Requests, Creation, Row, NoRowOf
  <2>4. lost \subseteq lost' /\ (step = "undo_identity" => call[q].uid \in lost')
    BY <2>1
  <2>5. \A e \in Emails : users'[e] # None =>
            \/ users[e] # None /\ users'[e].uid = users[e].uid
            \/ e = call[q].email /\ users'[e].uid = call[q].uid
    BY <1>0, <1>1, <1>2, <1>4 DEF TypeOK
  <2>6. UNCHANGED identity
    BY DEF InsertUser
  <2> QED
    BY <1>0, <2>1, <2>3, <2>4, <2>5, <2>6, GoToFrame
<1>5. CASE GoTo(q, "undo_identity") /\ UNCHANGED <<users, asked, lost>>
  <2>1. call' \in [Reqs -> Requests \cup {None}]
    BY <1>0, <1>5, GoToType
  <2>2. TypeOK'
    BY <1>0, <1>5, <2>1 DEF TypeOK, InsertUser, Requests
  <2>3. UNCHANGED identity
    BY DEF InsertUser
  <2> QED
    BY <1>0, <1>1, <1>5, <2>2, <2>3, GoToFrame DEF NoRowOf
<1> QED
  BY <1>2, <1>4, <1>5 DEF InsertUser, UndoInsert

LEMMA SendMailStep ==
    ASSUME IInv, NEW q \in Reqs, SendMail(q)
    PROVE  IInv'
<1>0. TypeOK /\ Creating(q)
  BY DEF IInv, SendMail, Is, Creating
<1>1. CASE call' = [call EXCEPT ![q] = None]
  <2>1. TypeOK'
    BY <1>0, <1>1 DEF SendMail, TypeOK, accounts, histories
  <2> QED
    BY <1>1, <2>1, Frame DEF SendMail, accounts, histories
<1>2. CASE GoTo(q, "undo_row")
  <2>1. call' \in [Reqs -> Requests \cup {None}]
    BY <1>0, <1>2, GoToType
  <2>2. TypeOK'
    BY <1>0, <2>1 DEF SendMail, TypeOK, Requests, accounts, histories
  <2> QED
    BY <1>0, <1>2, <2>2, GoToFrame DEF SendMail, accounts, histories
<1> QED
  BY <1>1, <1>2 DEF SendMail, UndoMail

LEMMA UndoRowStep ==
    ASSUME IInv, NEW q \in Reqs, UndoRow(q)
    PROVE  IInv'
<1>0. TypeOK /\ Creating(q) /\ GoTo(q, "undo_identity")
  BY DEF IInv, UndoRow, Is, Creating
<1>1. call[q] \in Creation /\ Owns(q)
  BY <1>0, CreationKind DEF IInv
<1>2. call' \in [Reqs -> Requests \cup {None}]
  BY <1>0, GoToType
<1>3. TypeOK'
  <2>1. users' \in [Emails -> Row \cup {None}] /\ lost' \subseteq Uids /\ overruled' \in BOOLEAN
    BY <1>0, <1>1 DEF UndoRow, TypeOK, Creation
  <2>2. \A d, e \in Emails : users'[d] # None /\ users'[e] # None /\ users'[d].uid = users'[e].uid => d = e
    BY <1>0, <1>1 DEF UndoRow, TypeOK, Creation
  <2> QED
    BY <1>0, <1>2, <2>1, <2>2 DEF UndoRow, TypeOK, Requests
<1>4. lost \subseteq lost' /\ UNCHANGED identity
  BY DEF UndoRow
<1>5. \A e \in Emails : users'[e] # None => users[e] # None /\ users'[e].uid = users[e].uid
  BY <1>0 DEF UndoRow, TypeOK
<1>6. \/ \A e \in Emails : users'[e] # None => users'[e].uid # call[q].uid
      \/ call[q].uid \in lost'
  <2>1. CASE users' = [users EXCEPT ![call[q].email] = None]
    BY <1>0, <1>1, <1>5, <2>1 DEF Owns, TypeOK
  <2>2. CASE lost' = lost \cup {call[q].uid}
    BY <2>2
  <2> QED
    BY <2>1, <2>2 DEF UndoRow
<1> QED
  BY <1>0, <1>3, <1>4, <1>5, <1>6, GoToFrame

LEMMA UndoIdentityStep ==
    ASSUME IInv, NEW q \in Reqs, UndoIdentity(q)
    PROVE  IInv'
<1>0. TypeOK /\ Creating(q) /\ Is(q, "undo_identity") /\ call' = [call EXCEPT ![q] = None]
  BY DEF IInv, UndoIdentity, Is, Creating
<1>1. call[q] \in Creation /\ Owns(q)
  BY <1>0, CreationKind DEF IInv
<1>2. TypeOK'
  BY <1>0, <1>1 DEF TypeOK, UndoIdentity, Creation
<1>3. \A u \in Uids \ {call[q].uid} : identity'[u] = identity[u]
  BY <1>0 DEF UndoIdentity, TypeOK
<1>4. NoRowOf(call[q].uid) \/ call[q].uid \in lost
  BY <1>0, <1>1 DEF Owns
<1>5. UNCHANGED <<users, lost>>
  BY DEF UndoIdentity
<1>6. RowHasIdentity'
  BY <1>0, <1>2, <1>3, <1>4, <1>5 DEF IInv, RowHasIdentity, NoRowOf, TypeOK, Row
<1>7. ASSUME NEW r \in Reqs, Creating(r)'
      PROVE  Creating(r) /\ call'[r] = call[r] /\ Owns(r)'
  <2>1. r # q /\ Creating(r) /\ call'[r] = call[r]
    BY <1>0, <1>7 DEF TypeOK, Creating
  <2>2. call[r].uid # call[q].uid /\ Owns(r) /\ call[r] \in Creation
    BY <1>0, <2>1, CreationKind DEF IInv
  <2>3. identity'[call[r].uid] = identity[call[r].uid]
    BY <1>3, <2>2 DEF Creation
  <2> QED
    BY <1>5, <2>1, <2>2, <2>3 DEF Owns, Is, NoRowOf
<1> QED
  BY <1>2, <1>6, <1>7 DEF IInv

(***************************************************************************)
(* Edits, claims and crashes.                                              *)
(***************************************************************************)
LEMMA WriteUserStep ==
    ASSUME IInv, NEW q \in Reqs, WriteUser(q)
    PROVE  IInv'
<1>0. TypeOK /\ (Is(q, "update") \/ Is(q, "assign"))
  BY DEF IInv, WriteUser
<1>1. call[q] \in Change
  BY <1>0, CallKinds DEF Is
<1>2. CASE users[call[q].email] # None /\ users[call[q].email].uid = call[q].read.uid
  <2>1. PICK row : row = Written(q, users[call[q].email])
    OBVIOUS
  <2>2. row \in Row /\ row.uid = users[call[q].email].uid
    BY <1>0, <1>1, <1>2, <2>1 DEF Written, TypeOK, Change, Row
  <2>3. PICK c : /\ c = IF call[q].sync THEN [op |-> "sync", row |-> row] ELSE None
                 /\ call' = [call EXCEPT ![q] = c]
                 /\ users' = [users EXCEPT ![call[q].email] = row]
    BY <1>2, <2>1 DEF WriteUser, Returned
  <2>4. c \in Sync \cup {None}
    BY <2>2, <2>3 DEF Sync
  <2>5. asked' \in [Emails -> Roles \cup {None}] /\ unsynced' \subseteq Uids /\ overruled' \in BOOLEAN
    BY <1>0, <1>1, <1>2 DEF WriteUser, TypeOK, Change, Row
  <2>6. UNCHANGED <<identity, claims, lost, stranded>>
    BY DEF WriteUser
  <2>7. TypeOK'
    <3>1. call' \in [Reqs -> Principal \cup Creation \cup Change \cup Sync \cup {None}]
      BY <1>0, <2>3, <2>4 DEF TypeOK
    <3>2. call[q].email \in Emails /\ row # None
      BY <1>1, <2>2, NoneAssumption DEF Change
    <3>3. users' \in [Emails -> Row \cup {None}]
      BY <1>0, <2>2, <2>3 DEF TypeOK
    <3>4. \A d, e \in Emails : users'[d] # None /\ users'[e] # None /\ users'[d].uid = users'[e].uid => d = e
      BY <1>0, <1>2, <2>2, <2>3, <3>2 DEF TypeOK
    <3> QED
      BY <1>0, <2>5, <2>6, <3>1, <3>3, <3>4 DEF TypeOK
  <2>8. \A e \in Emails : users'[e] # None => users[e] # None /\ users'[e].uid = users[e].uid
    BY <1>0, <1>1, <1>2, <2>2, <2>3 DEF TypeOK
  <2>9. c = None \/ c.op \notin {"insert", "mail", "undo_row", "undo_identity"}
    BY <2>3
  <2> QED
    BY <2>3, <2>6, <2>7, <2>8, <2>9, Frame
<1>3. CASE ~(users[call[q].email] # None /\ users[call[q].email].uid = call[q].read.uid)
  <2>1. call' = [call EXCEPT ![q] = None] /\ UNCHANGED <<accounts, histories>>
    BY <1>3 DEF WriteUser, accounts, histories
  <2>2. TypeOK'
    BY <1>0, <2>1 DEF TypeOK, accounts, histories
  <2> QED
    BY <2>1, <2>2, Frame DEF accounts, histories
<1> QED
  BY <1>2, <1>3

LEMMA SetCustomClaimsStep ==
    ASSUME IInv, NEW q \in Reqs, SetCustomClaims(q)
    PROVE  IInv'
<1>0. TypeOK /\ Is(q, "sync") /\ call' = [call EXCEPT ![q] = None]
  BY DEF IInv, SetCustomClaims
<1>1. call[q].row \in Row /\ call[q].row.uid \in Uids
  BY <1>0, CallKinds DEF Is, Sync, Row
<1>2. TypeOK'
  BY <1>0, <1>1 DEF TypeOK, SetCustomClaims
<1> QED
  BY <1>0, <1>2, Frame DEF SetCustomClaims

LEMMA CrashStep ==
    ASSUME IInv, NEW q \in Reqs, Crash(q)
    PROVE  IInv'
<1>0. TypeOK /\ call[q] # None /\ call' = [call EXCEPT ![q] = None]
  BY DEF IInv, Crash
<1>1. Creating(q) => call[q] \in Creation
  BY <1>0, CallKinds
<1>2. call[q].op = "sync" => call[q].row.uid \in Uids
  BY <1>0, CallKinds DEF Sync, Row
<1>3. TypeOK'
  BY <1>0, <1>1, <1>2 DEF TypeOK, Crash, accounts, Creating, Creation
<1> QED
  BY <1>0, <1>3, Frame DEF Crash, accounts

LEMMA StepKeepsIInv == IInv /\ [Next]_vars => IInv'
<1> SUFFICES ASSUME IInv, [Next]_vars PROVE IInv'
  OBVIOUS
<1>1. CASE UNCHANGED vars
  BY <1>1 DEF vars, accounts, histories, IInv, TypeOK, RowHasIdentity, Owns, Is, NoRowOf, Creating
<1>2. CASE Next
  <2>1. PICK q \in Reqs : Serve(q)
    BY <1>2 DEF Next
  <2>2. Refuse(q) => IInv'
    BY ReadSteps, FounderAssumption
  <2> QED
    BY <2>1, <2>2, ReadSteps, CreateIdentityStep, InsertUserStep, SendMailStep, UndoRowStep,
       UndoIdentityStep, WriteUserStep, SetCustomClaimsStep, CrashStep DEF Serve
<1> QED
  BY <1>1, <1>2

LEMMA InitIInv == Init => IInv
<1> SUFFICES ASSUME Init PROVE IInv
  OBVIOUS
<1>1. FoundersRow \in Row /\ FoundersRow.uid = FounderUid
  BY FounderAssumption, RolesAssumption DEF FoundersRow, Row
<1>2. TypeOK
  BY <1>1, FounderAssumption, RolesAssumption DEF Init, TypeOK
<1> QED
  BY <1>1, <1>2, FounderAssumption DEF Init, IInv, RowHasIdentity, Creating

(* Whoever has a row has the identity to sign in with: CreateUserService   *)
(* and its clean-up, whichever of their steps fail, and in any overlap     *)
(* with other requests, delete no identity whose row is known to be there. *)
THEOREM RowsCanSignIn == Spec => []RowHasIdentity
<1>1. IInv => RowHasIdentity
  BY DEF IInv
<1> QED
  BY <1>1, InitIInv, StepKeepsIInv, PTL DEF Spec

(* The accounts stay well formed; in particular no two rows share the id   *)
(* of an identity.                                                         *)
THEOREM AccountsTyped == Spec => []TypeOK
<1>1. IInv => TypeOK
  BY DEF IInv
<1> QED
  BY <1>1, InitIInv, StepKeepsIInv, PTL DEF Spec

(***************************************************************************)
(* The last administrator.                                                 *)
(***************************************************************************)
(* No edit under way takes the role of the administrator who asked for it. *)
EditsSpareTheirOwn ==
    \A q \in Reqs :
        Is(q, "update") => ~DowngradesSelf(call[q].id, call[q].read, call[q].row.role)

AInv == EditsSpareTheirOwn /\ AdminRemains

LEMMA EditsSpare ==
    ASSUME TypeOK, EditsSpareTheirOwn, [Next]_vars
    PROVE  EditsSpareTheirOwn'
<1>1. ASSUME NEW q \in Reqs, NEW c, call' = [call EXCEPT ![q] = c],
             c = None \/ c.op # "update" \/ ~DowngradesSelf(c.id, c.read, c.row.role)
      PROVE  EditsSpareTheirOwn'
  BY <1>1 DEF EditsSpareTheirOwn, TypeOK, Is, DowngradesSelf
<1>2. CASE UNCHANGED vars
  BY <1>2 DEF vars, EditsSpareTheirOwn, Is, DowngradesSelf
<1>3. ASSUME NEW q \in Reqs, Serve(q) PROVE EditsSpareTheirOwn'
  <2>1. ASSUME NEW step, step # "update", GoTo(q, step) PROVE EditsSpareTheirOwn'
    BY <1>1, <2>1 DEF GoTo
  <2>2. CASE call' = [call EXCEPT ![q] = None]
    BY <1>1, <2>2
  <2>3. ASSUME NEW e \in Emails, Authenticate(q, e) \/ SyncAuth(q, e) PROVE EditsSpareTheirOwn'
    BY <1>1, <2>3 DEF Authenticate, SyncAuth
  <2>4. ASSUME NEW e \in Emails, NEW role \in Roles, CreateIdentity(q, e, role) PROVE EditsSpareTheirOwn'
    BY <1>1, <2>4 DEF CreateIdentity
  <2>5. ASSUME NEW e \in Emails, NEW role \in Roles \cup {None}, ReadUser(q, e, role)
        PROVE  EditsSpareTheirOwn'
    <3>1. Wanted(users[e], role) = [users[e] EXCEPT !.role = Wanted(users[e], role)].role
      BY <2>5 DEF ReadUser, TypeOK, Row
    <3> QED
      BY <1>1, <2>5, <3>1 DEF ReadUser
  <2>6. ASSUME NEW e \in Emails, NEW properties \in SUBSET Properties, ReadAssignee(q, e, properties)
        PROVE  EditsSpareTheirOwn'
    BY <1>1, <2>6 DEF ReadAssignee
  <2>7. CASE WriteUser(q)
    BY <1>1, <2>7 DEF WriteUser
  <2> QED
    BY <1>3, <2>1, <2>2, <2>3, <2>4, <2>5, <2>6, <2>7
       DEF Serve, Refuse, InsertUser, UndoInsert, SendMail, UndoMail, UndoRow, UndoIdentity,
           SetCustomClaims, Crash
<1> QED
  BY <1>2, <1>3 DEF Next

(* An edit that takes a role is not stale and is an administrator's, who   *)
(* remains one.                                                            *)
LEMMA AdminStays ==
    ASSUME TypeOK, AInv, [Next]_vars
    PROVE  AdminRemains'
<1> SUFFICES ASSUME ~overruled' PROVE \E e \in Emails : users'[e] # None /\ users'[e].role = "admin"
  BY DEF AdminRemains
<1>1. CASE UNCHANGED <<users, overruled>>
  BY <1>1 DEF AInv, AdminRemains
<1>2. ASSUME NEW q \in Reqs, InsertUser(q) PROVE \E e \in Emails : users'[e] # None /\ users'[e].role = "admin"
  BY <1>2 DEF InsertUser, AInv, AdminRemains, TypeOK
<1>3. ASSUME NEW q \in Reqs, UndoRow(q) PROVE \E e \in Emails : users'[e] # None /\ users'[e].role = "admin"
  BY <1>3 DEF UndoRow, AInv, AdminRemains, TypeOK
<1>4. ASSUME NEW q \in Reqs, WriteUser(q), ~UNCHANGED users
      PROVE  \E e \in Emails : users'[e] # None /\ users'[e].role = "admin"
  <2>1. /\ users[call[q].email] = call[q].read /\ users[call[q].email] # None
        /\ IsAdmin(call[q].id)
        /\ users' = [users EXCEPT ![call[q].email] = Written(q, users[call[q].email])]
    BY <1>4 DEF WriteUser
  <2>2. PICK e \in Emails : users[e] # None /\ users[e].uid = call[q].id /\ users[e].role = "admin"
    BY <2>1 DEF IsAdmin
  <2>3. CASE e # call[q].email
    BY <2>1, <2>2, <2>3 DEF TypeOK
  <2>4. CASE e = call[q].email
    <3>1. call[q] \in Change /\ users[e] \in Row
      BY <1>4, <2>2, CallKinds DEF WriteUser, Is, TypeOK
    <3>2. Written(q, users[e]) \in Row /\ Written(q, users[e]).role = "admin"
      BY <1>4, <2>1, <2>2, <2>4, <3>1
         DEF AInv, EditsSpareTheirOwn, DowngradesSelf, Written, Row, Change, Is, WriteUser
    <3> QED
      BY <2>1, <2>4, <3>2, NoneAssumption DEF TypeOK
  <2> QED
    BY <2>3, <2>4
<1>5. ASSUME NEW q \in Reqs, Serve(q) PROVE \E e \in Emails : users'[e] # None /\ users'[e].role = "admin"
  <2>1. CASE InsertUser(q)
    BY <1>2, <2>1
  <2>2. CASE UndoRow(q)
    BY <1>3, <2>2
  <2>3. CASE WriteUser(q)
    <3>1. ~overruled
      BY <2>3 DEF WriteUser
    <3> QED
      BY <1>4, <2>3, <3>1 DEF AInv, AdminRemains
  <2>4. CASE ~(InsertUser(q) \/ UndoRow(q) \/ WriteUser(q))
    <3>1. UNCHANGED <<users, overruled>>
      BY <1>5, <2>4
         DEF Serve, Authenticate, SyncAuth, CreateIdentity, ReadUser, ReadAssignee, Refuse,
             SendMail, UndoIdentity, SetCustomClaims, Crash, accounts, histories
    <3> QED
      BY <1>1, <3>1
  <2> QED
    BY <2>1, <2>2, <2>3, <2>4
<1> QED
  BY <1>1, <1>5 DEF Next, vars, accounts, histories

(* UpdateUserService never leaves the system without an administrator, as  *)
(* long as every edit is that of a current administrator over the row it   *)
(* has read: refusing to downgrade oneself is then enough.                 *)
THEOREM AnAdministratorRemains == Spec => []AdminRemains
<1>1. Init => AInv
  <2>1. FoundersRow \in Row /\ FoundersRow.role = "admin"
    BY FounderAssumption, RolesAssumption DEF FoundersRow, Row
  <2> QED
    BY <2>1, FounderAssumption, NoneAssumption DEF Init, AInv, EditsSpareTheirOwn, AdminRemains, Is
<1>2. TypeOK /\ AInv /\ [Next]_vars => AInv'
  BY EditsSpare, AdminStays DEF AInv
<1>3. AInv => AdminRemains
  BY DEF AInv
<1> QED
  BY <1>1, <1>2, <1>3, AccountsTyped, PTL DEF Spec

(***************************************************************************)
(* Rows and identities; roles; claims.                                     *)
(***************************************************************************)
(* The provider has one identity for an e-mail address.                    *)
EmailsApart ==
    \A u, v \in Uids : identity[u] # None /\ identity[u] = identity[v] => u = v

MatchInv == EmailsApart /\ IdentityHasRow

(* An edit of a name changes nothing of the row that it has read.          *)
NamesOnly ==
    \A q \in Reqs :
        /\ Is(q, "update") /\ ~call[q].sync => call[q].row.role = call[q].read.role
        /\ Is(q, "assign") => call[q].sync

RoleInv == NamesOnly /\ RoleAsAsked

(* An identity that is created starts without claims, and nothing writes   *)
(* them before its row is there.                                           *)
ClaimsStartEmpty ==
    /\ \A u \in Uids : identity[u] = None => claims[u] = None
    /\ \A q \in Reqs : Is(q, "insert") => claims[call[q].uid] = None /\ ~SyncPending(call[q].uid)

(* What remains to be written is the row as it is, unless edits overlapped.*)
PendingIsCurrent ==
    \A q \in Reqs, e \in Emails :
        Is(q, "sync") /\ users[e] # None /\ users[e].uid = call[q].row.uid =>
            call[q].row.uid \in unsynced \/ call[q].row = users[e]

ClaimsInv == ClaimsStartEmpty /\ PendingIsCurrent /\ ClaimsFollowRow

(* The row of identity u is yet to be inserted, or u to be deleted.        *)
Holds(q, u) == (Is(q, "insert") \/ Is(q, "undo_identity")) /\ call[q].uid = u

LEMMA MatchFrame ==
    ASSUME TypeOK, MatchInv, UNCHANGED identity, stranded \subseteq stranded',
           \A e \in Emails : users[e] # None => users'[e] # None /\ users'[e].uid = users[e].uid,
           \A q \in Reqs, u \in Uids : Holds(q, u) => Holds(q, u)' \/ u \in stranded'
    PROVE  MatchInv'
<1>1. EmailsApart'
  BY DEF MatchInv, EmailsApart
<1>2. ASSUME NEW u \in Uids \ stranded', identity[u] # None
      PROVE  \/ users'[identity[u]] # None /\ users'[identity[u]].uid = u
             \/ \E q \in Reqs : Holds(q, u)'
  <2>1. identity[u] \in Emails
    BY <1>2 DEF TypeOK
  <2>2. \/ users[identity[u]] # None /\ users[identity[u]].uid = u
        \/ \E q \in Reqs : Holds(q, u)
    BY <1>2 DEF MatchInv, IdentityHasRow, Holds
  <2> QED
    BY <1>2, <2>1, <2>2
<1> QED
  BY <1>1, <1>2 DEF MatchInv, IdentityHasRow, Holds

(* Another operation than these two goes on or ends.                       *)
LEMMA HoldsKept ==
    ASSUME TypeOK, NEW q \in Reqs, ~Is(q, "insert"), ~Is(q, "undo_identity"), NEW c,
           call' = [call EXCEPT ![q] = c]
    PROVE  \A r \in Reqs, u \in Uids : Holds(r, u) => Holds(r, u)'
BY DEF TypeOK, Holds, Is

LEMMA MatchIdentitySteps ==
    ASSUME IInv, MatchInv, NEW q \in Reqs,
           (\E e \in Emails, role \in Roles : CreateIdentity(q, e, role)) \/ UndoIdentity(q)
    PROVE  MatchInv'
<1>0. TypeOK
  BY DEF IInv
<1>1. ASSUME NEW e \in Emails, NEW role \in Roles, CreateIdentity(q, e, role) PROVE MatchInv'
  <2>1. PICK u \in Uids :
            /\ Fresh(u) /\ identity' = [identity EXCEPT ![u] = e] /\ stranded' = stranded \ {u}
            /\ call' = [call EXCEPT ![q] = [op |-> "insert", email |-> e, uid |-> u, role |-> role]]
    BY <1>1 DEF CreateIdentity
  <2>2. PICK c : /\ c = [op |-> "insert", email |-> e, uid |-> u, role |-> role]
                 /\ call' = [call EXCEPT ![q] = c]
    BY <2>1
  <2>3. c # None /\ call'[q] = c
    BY <1>0, <2>2, NoneAssumption DEF TypeOK, Creation
  <2>4. Holds(q, u)'
    BY <2>2, <2>3 DEF Holds, Is
  <2>5. /\ \A v \in Uids \ {u} : identity'[v] = identity[v]
        /\ identity'[u] = e /\ UNCHANGED users /\ Is(q, "auth")
        /\ \A v \in Uids : identity[v] # e
    BY <1>0, <1>1, <2>1 DEF TypeOK, CreateIdentity
  <2>6. EmailsApart'
    BY <2>5 DEF MatchInv, EmailsApart
  <2>7. \A r \in Reqs, v \in Uids : Holds(r, v) => Holds(r, v)'
    BY <1>0, <2>2, <2>5, HoldsKept DEF Is
  <2>8. ASSUME NEW v \in Uids \ stranded', identity'[v] # None
        PROVE  \/ users'[identity'[v]] # None /\ users'[identity'[v]].uid = v
               \/ \E r \in Reqs : Holds(r, v)'
    <3>1. CASE v = u
      BY <2>4, <3>1
    <3>2. CASE v # u
      BY <2>1, <2>5, <2>7, <2>8, <3>2 DEF MatchInv, IdentityHasRow, Holds
    <3> QED
      BY <3>1, <3>2
  <2> QED
    BY <2>6, <2>8 DEF MatchInv, IdentityHasRow, Holds
<1>2. CASE UndoIdentity(q)
  <2>1. PICK u : u = call[q].uid
    OBVIOUS
  <2>2. /\ UNCHANGED users /\ call' = [call EXCEPT ![q] = None]
        /\ \A v \in Uids : v # u => identity'[v] = identity[v] /\ (v \in stranded' => v \in stranded)
        /\ u \in Uids => u \in stranded' \/ identity'[u] = None
        /\ \A v \in Uids : identity'[v] # None => identity'[v] = identity[v]
        /\ stranded \subseteq stranded'
    BY <1>0, <1>2, <2>1 DEF UndoIdentity, TypeOK
  <2>3. EmailsApart'
    BY <2>2 DEF MatchInv, EmailsApart
  <2>4. ASSUME NEW v \in Uids \ stranded', identity'[v] # None
        PROVE  \/ users'[identity'[v]] # None /\ users'[identity'[v]].uid = v
               \/ \E r \in Reqs : Holds(r, v)'
    <3>1. v # u /\ identity'[v] = identity[v] /\ v \notin stranded
      BY <2>2, <2>4
    <3>2. \A r \in Reqs : Holds(r, v) => Holds(r, v)'
      BY <1>0, <2>1, <2>2, <3>1 DEF Holds, Is, TypeOK
    <3> QED
      BY <2>2, <2>4, <3>1, <3>2 DEF MatchInv, IdentityHasRow, Holds
  <2> QED
    BY <2>3, <2>4 DEF MatchInv, IdentityHasRow, Holds
<1> QED
  BY <1>1, <1>2

LEMMA MatchRowSteps ==
    ASSUME IInv, MatchInv, NEW q \in Reqs, InsertUser(q) \/ UndoRow(q)
    PROVE  MatchInv'
<1>0. TypeOK /\ Creating(q)
  BY DEF IInv, Creating, InsertUser, UndoRow, Is
<1>1. call[q] \in Creation /\ Owns(q)
  BY <1>0, CreationKind DEF IInv
<1>2. PICK e \in Emails, u \in Uids : e = call[q].email /\ u = call[q].uid
  BY <1>1 DEF Creation
<1>3. identity[u] = e
  BY <1>1, <1>2 DEF Owns
<1>4. UNCHANGED <<identity, stranded>> /\ \A d \in Emails : d # e => users'[d] = users[d]
  BY <1>0, <1>2 DEF InsertUser, UndoRow, TypeOK
<1>5. (users'[e] # None /\ users'[e].uid = u) \/ Holds(q, u)'
  <2>1. CASE GoTo(q, "undo_identity")
    <3>1. call'[q] \in Creation /\ call'[q].op = "undo_identity" /\ call'[q].uid = u
      BY <1>0, <1>2, <2>1, GoToType
    <3> QED
      BY <3>1, NoneAssumption DEF Holds, Is
  <2>2. CASE ~GoTo(q, "undo_identity")
    <3>1. PICK row : row = [uid |-> u, role |-> call[q].role, assigned |-> {}]
      OBVIOUS
    <3>2. users' = [users EXCEPT ![e] = row]
      BY <1>2, <2>2, <3>1 DEF InsertUser, UndoInsert, UndoRow
    <3>3. row \in Row
      BY <1>1, <3>1 DEF Row, Creation
    <3> QED
      BY <1>0, <3>1, <3>2, <3>3, NoneAssumption DEF TypeOK
  <2> QED
    BY <2>1, <2>2
<1>6. \A r \in Reqs : r # q => call'[r] = call[r]
  BY <1>0 DEF InsertUser, UndoInsert, UndoRow, GoTo, TypeOK
<1>7. EmailsApart'
  BY <1>4 DEF MatchInv, EmailsApart
<1>8. ASSUME NEW v \in Uids \ stranded', identity'[v] # None
      PROVE  \/ users'[identity'[v]] # None /\ users'[identity'[v]].uid = v
             \/ \E r \in Reqs : Holds(r, v)'
  <2>1. CASE v = u
    BY <1>3, <1>4, <1>5, <2>1
  <2>2. CASE v # u
    <3>1. identity[v] # e /\ identity[v] \in Emails
      BY <1>0, <1>3, <1>4, <1>8, <2>2 DEF MatchInv, EmailsApart, TypeOK
    <3>2. \A r \in Reqs : Holds(r, v) => Holds(r, v)'
      BY <1>2, <1>6, <2>2 DEF Holds, Is
    <3>3. (users[identity[v]] # None /\ users[identity[v]].uid = v) \/ \E r \in Reqs : Holds(r, v)
      BY <1>4, <1>8 DEF MatchInv, IdentityHasRow, Holds
    <3> QED
      BY <1>4, <3>1, <3>2, <3>3
  <2> QED
    BY <2>1, <2>2
<1> QED
  BY <1>7, <1>8 DEF MatchInv, IdentityHasRow, Holds

LEMMA WrittenKind ==
    ASSUME TypeOK, NEW q \in Reqs, Is(q, "update") \/ Is(q, "assign"),
           users[call[q].email] # None
    PROVE  /\ call[q] \in Change /\ users[call[q].email] \in Row
           /\ Written(q, users[call[q].email]) \in Row
           /\ Written(q, users[call[q].email]).uid = users[call[q].email].uid
<1>1. call[q] \in Change
  BY CallKinds DEF Is
<1>2. users[call[q].email] \in Row
  BY <1>1 DEF TypeOK, Change
<1> QED
  BY <1>1, <1>2 DEF Written, Change, Row

LEMMA MatchStep ==
    ASSUME IInv, MatchInv, [Next]_vars
    PROVE  MatchInv'
<1>0. TypeOK
  BY DEF IInv
<1>1. CASE UNCHANGED vars
  BY <1>1 DEF vars, accounts, histories, MatchInv, EmailsApart, IdentityHasRow, Is
<1>2. ASSUME NEW q \in Reqs, Serve(q) PROVE MatchInv'
  <2>1. ASSUME UNCHANGED <<identity, users, stranded>>, ~Is(q, "insert"), ~Is(q, "undo_identity"),
               NEW c, call' = [call EXCEPT ![q] = c]
        PROVE  MatchInv'
    BY <1>0, <2>1, MatchFrame, HoldsKept
  <2>2. ASSUME NEW e \in Emails, Authenticate(q, e) \/ SyncAuth(q, e) PROVE MatchInv'
    BY <2>1, <2>2 DEF Authenticate, SyncAuth, accounts, histories, Is
  <2>3. ASSUME NEW e \in Emails, NEW role \in Roles \cup {None}, ReadUser(q, e, role) PROVE MatchInv'
    BY <2>1, <2>3 DEF ReadUser, accounts, histories, Is
  <2>4. ASSUME NEW e \in Emails, NEW properties \in SUBSET Properties, ReadAssignee(q, e, properties)
        PROVE  MatchInv'
    BY <2>1, <2>4 DEF ReadAssignee, accounts, histories, Is
  <2>5. CASE Refuse(q) \/ SetCustomClaims(q)
    BY <2>1, <2>5 DEF Refuse, SetCustomClaims, accounts, histories, Is
  <2>6. CASE SendMail(q)
    BY <2>1, <2>6 DEF SendMail, UndoMail, GoTo, accounts, histories, Is
  <2>7. CASE WriteUser(q)
    <3>1. ~Is(q, "insert") /\ ~Is(q, "undo_identity") /\ UNCHANGED <<identity, stranded>>
      BY <2>7 DEF WriteUser, Is
    <3>2. PICK c : call' = [call EXCEPT ![q] = c]
      BY <2>7 DEF WriteUser
    <3>3. \A e \in Emails : users[e] # None => users'[e] # None /\ users'[e].uid = users[e].uid
      BY <1>0, <2>7, WrittenKind, NoneAssumption DEF WriteUser, TypeOK
    <3> QED
      BY <1>0, <3>1, <3>2, <3>3, MatchFrame, HoldsKept
  <2>8. CASE Crash(q)
    <3>1. /\ call[q] # None /\ call' = [call EXCEPT ![q] = None] /\ UNCHANGED <<identity, users>>
          /\ stranded \subseteq stranded'
          /\ call[q].op \in {"insert", "undo_identity"} => call[q].uid \in stranded'
      BY <2>8 DEF Crash, accounts
    <3>2. \A r \in Reqs, u \in Uids : Holds(r, u) => Holds(r, u)' \/ u \in stranded'
      BY <1>0, <3>1 DEF Holds, Is, TypeOK
    <3> QED
      BY <1>0, <3>1, <3>2, MatchFrame
  <2> QED
    BY <1>2, <2>2, <2>3, <2>4, <2>5, <2>6, <2>7, <2>8, MatchIdentitySteps, MatchRowSteps DEF Serve
<1> QED
  BY <1>1, <1>2 DEF Next

(* Rows and identities come and go together: creating a user and undoing   *)
(* it, whichever step fails and whatever overlaps, leave no row without    *)
(* its identity and, but for a crash or a clean-up that failed, no         *)
(* identity without its row.                                               *)
THEOREM StoresMatch == Spec => []IdentitiesMatchRows
<1>1. Init => MatchInv
  <2> SUFFICES ASSUME Init PROVE MatchInv
    OBVIOUS
  <2>1. users[Founder] # None /\ users[Founder].uid = FounderUid
    BY FounderAssumption, NoneAssumption, RolesAssumption DEF Init, FoundersRow, Row
  <2>2. \A u \in Uids : identity[u] # None => u = FounderUid /\ identity[u] = Founder
    BY DEF Init
  <2> QED
    BY <2>1, <2>2 DEF MatchInv, EmailsApart, IdentityHasRow
<1>2. IInv /\ MatchInv /\ [Next]_vars => MatchInv'
  BY MatchStep
<1>3. IInv /\ MatchInv => IdentitiesMatchRows
  BY DEF IInv, MatchInv, IdentitiesMatchRows
<1> QED
  BY <1>1, <1>2, <1>3, InitIInv, StepKeepsIInv, PTL DEF Spec

-----------------------------------------------------------------------------
LEMMA NamesStep ==
    ASSUME TypeOK, NamesOnly, [Next]_vars
    PROVE  NamesOnly'
<1>1. ASSUME NEW q \in Reqs, NEW c, call' = [call EXCEPT ![q] = c],
             c # None /\ c.op = "update" /\ ~c.sync => c.row.role = c.read.role,
             c # None /\ c.op = "assign" => c.sync
      PROVE  NamesOnly'
  BY <1>1 DEF NamesOnly, TypeOK, Is
<1>2. CASE UNCHANGED vars
  BY <1>2 DEF vars, NamesOnly, Is
<1>3. ASSUME NEW q \in Reqs, Serve(q) PROVE NamesOnly'
  <2>1. ASSUME NEW step, step \notin {"update", "assign"}, GoTo(q, step) PROVE NamesOnly'
    BY <1>1, <2>1 DEF GoTo
  <2>2. CASE call' = [call EXCEPT ![q] = None]
    BY <1>1, <2>2
  <2>3. ASSUME NEW e \in Emails, Authenticate(q, e) \/ SyncAuth(q, e) PROVE NamesOnly'
    BY <1>1, <2>3 DEF Authenticate, SyncAuth
  <2>4. ASSUME NEW e \in Emails, NEW role \in Roles, CreateIdentity(q, e, role) PROVE NamesOnly'
    BY <1>1, <2>4 DEF CreateIdentity
  <2>5. ASSUME NEW e \in Emails, NEW role \in Roles \cup {None}, ReadUser(q, e, role)
        PROVE  NamesOnly'
    <3>1. Wanted(users[e], role) = [users[e] EXCEPT !.role = Wanted(users[e], role)].role
      BY <2>5 DEF ReadUser, TypeOK, Row
    <3>2. role = None => Wanted(users[e], role) = users[e].role
      BY DEF Wanted
    <3> QED
      BY <1>1, <2>5, <3>1, <3>2 DEF ReadUser
  <2>6. ASSUME NEW e \in Emails, NEW properties \in SUBSET Properties, ReadAssignee(q, e, properties)
        PROVE  NamesOnly'
    BY <1>1, <2>6 DEF ReadAssignee
  <2>7. CASE WriteUser(q)
    BY <1>1, <2>7 DEF WriteUser
  <2> QED
    BY <1>3, <2>1, <2>2, <2>3, <2>4, <2>5, <2>6, <2>7
       DEF Serve, Refuse, InsertUser, UndoInsert, SendMail, UndoMail, UndoRow, UndoIdentity,
           SetCustomClaims, Crash
<1> QED
  BY <1>2, <1>3 DEF Next

(* Only three steps write rows or what was asked for.                      *)
LEMMA RowsUntouched ==
    ASSUME NEW q \in Reqs, Serve(q), ~(InsertUser(q) \/ UndoRow(q) \/ WriteUser(q))
    PROVE  UNCHANGED <<users, asked>>
BY DEF Serve, Authenticate, SyncAuth, CreateIdentity, ReadUser, ReadAssignee, Refuse,
       SendMail, UndoIdentity, SetCustomClaims, Crash, accounts, histories

(* The write of an edit that read the row as it is.                        *)
LEMMA WrittenFresh ==
    ASSUME TypeOK, NamesOnly, NEW q \in Reqs, Is(q, "update") \/ Is(q, "assign"),
           users[call[q].email] # None, users[call[q].email] = call[q].read
    PROVE  /\ Is(q, "update") => Written(q, users[call[q].email]).role = call[q].row.role
           /\ Is(q, "assign") =>
                 call[q].sync /\ Written(q, users[call[q].email]).role = users[call[q].email].role
           /\ ~call[q].sync => Written(q, users[call[q].email]) = users[call[q].email]
<1>1. call[q] \in Change /\ users[call[q].email] \in Row
  BY WrittenKind
<1>2. CASE Is(q, "update")
  <2>1. ~call[q].sync => call[q].row.role = users[call[q].email].role
    BY <1>2 DEF NamesOnly
  <2> QED
    BY <1>1, <1>2, <2>1 DEF Written, Change, Row, Is
<1>3. CASE Is(q, "assign")
  BY <1>1, <1>3 DEF Written, Change, Row, Is, NamesOnly
<1> QED
  BY <1>2, <1>3

LEMMA RoleStep ==
    ASSUME TypeOK, RoleInv, [Next]_vars
    PROVE  RoleInv'
<1>1. NamesOnly'
  BY NamesStep DEF RoleInv
<1>2. CASE UNCHANGED <<users, asked>>
  BY <1>1, <1>2 DEF RoleInv, RoleAsAsked
<1>3. ASSUME NEW q \in Reqs, InsertUser(q), ~UNCHANGED <<users, asked>> PROVE RoleAsAsked'
  <2>1. call[q] \in Creation
    BY <1>3, CreationKind DEF InsertUser, Creating, Is
  <2>2. PICK row : row = [uid |-> call[q].uid, role |-> call[q].role, assigned |-> {}]
    OBVIOUS
  <2>3. users' = [users EXCEPT ![call[q].email] = row] /\ asked' = [asked EXCEPT ![call[q].email] = row.role]
    BY <1>3, <2>2 DEF InsertUser
  <2> QED
    BY <2>1, <2>3 DEF RoleInv, RoleAsAsked, TypeOK, Creation
<1>4. ASSUME NEW q \in Reqs, UndoRow(q) PROVE RoleAsAsked'
  BY <1>4 DEF UndoRow, RoleInv, RoleAsAsked, TypeOK
<1>5. ASSUME NEW q \in Reqs, WriteUser(q), ~UNCHANGED <<users, asked>> PROVE RoleAsAsked'
  <2> DEFINE e == call[q].email
  <2>1. /\ Is(q, "update") \/ Is(q, "assign")
        /\ users[e] # None
        /\ users' = [users EXCEPT ![e] = Written(q, users[e])]
        /\ asked' = IF users[e] # call[q].read THEN [asked EXCEPT ![e] = None]
                    ELSE IF call[q].op = "update" /\ call[q].sync
                    THEN [asked EXCEPT ![e] = call[q].row.role] ELSE asked
    BY <1>5 DEF WriteUser
  <2>2. e \in Emails /\ Written(q, users[e]) \in Row
    BY <2>1, WrittenKind DEF Change
  <2>3. users'[e] = Written(q, users[e]) /\ \A d \in Emails \ {e} : users'[d] = users[d]
    BY <2>1, <2>2 DEF TypeOK
  <2>4. \A d \in Emails \ {e} : asked'[d] = asked[d]
    BY <2>1 DEF TypeOK
  <2>5. asked'[e] \in {None, users'[e].role}
    <3>1. CASE users[e] # call[q].read
      BY <2>1, <2>2, <3>1 DEF TypeOK
    <3>2. CASE users[e] = call[q].read
      <4>1. CASE Is(q, "update") /\ call[q].sync
        <5>1. asked'[e] = call[q].row.role
          BY <2>1, <2>2, <3>2, <4>1 DEF TypeOK, Is
        <5>2. users'[e].role = call[q].row.role
          BY <2>1, <2>3, <3>2, <4>1, WrittenFresh DEF RoleInv
        <5> QED
          BY <5>1, <5>2
      <4>2. CASE ~(Is(q, "update") /\ call[q].sync)
        <5>1. asked' = asked
          BY <2>1, <3>2, <4>2 DEF Is
        <5>2. Is(q, "assign") \/ ~call[q].sync
          BY <2>1, <4>2
        <5>3. users'[e].role = users[e].role
          BY <2>1, <2>3, <3>2, <5>2, WrittenFresh DEF RoleInv
        <5> QED
          BY <2>1, <2>2, <5>1, <5>3 DEF RoleInv, RoleAsAsked
      <4> QED
        BY <4>1, <4>2
    <3> QED
      BY <3>1, <3>2
  <2> QED
    BY <2>2, <2>3, <2>4, <2>5 DEF RoleInv, RoleAsAsked
<1>6. ASSUME NEW q \in Reqs, Serve(q) PROVE RoleAsAsked'
  BY <1>2, <1>3, <1>4, <1>5, <1>6, RowsUntouched DEF RoleInv
<1>7. CASE UNCHANGED vars
  BY <1>2, <1>7 DEF vars, accounts, histories
<1> QED
  BY <1>1, <1>6, <1>7 DEF RoleInv, Next

-----------------------------------------------------------------------------
(* Steps that write no claims and no row.                                  *)
LEMMA ClaimsFrame ==
    ASSUME TypeOK, ClaimsInv, UNCHANGED <<claims, users>>, unsynced \subseteq unsynced',
           \A u \in Uids : identity'[u] = None => identity[u] = None,
           NEW q \in Reqs, NEW c, call' = [call EXCEPT ![q] = c],
           c = None \/ c.op \notin {"insert", "sync"},
           Is(q, "sync") => call[q].row.uid \in unsynced'
    PROVE  ClaimsInv'
<1>1. \A r \in Reqs : r # q => call'[r] = call[r]
  BY DEF TypeOK
<1>2. ~Is(q, "insert")' /\ ~Is(q, "sync")'
  BY DEF TypeOK, Is
<1>3. \A u : SyncPending(u)' => SyncPending(u)
  BY <1>1, <1>2 DEF SyncPending, Is
<1>4. \A u : SyncPending(u) => SyncPending(u)' \/ u \in unsynced'
  BY <1>1 DEF SyncPending, Is
<1>5. ClaimsStartEmpty'
  BY <1>1, <1>2, <1>3 DEF ClaimsInv, ClaimsStartEmpty, Is
<1>6. PendingIsCurrent'
  BY <1>1, <1>2 DEF ClaimsInv, PendingIsCurrent, Is
<1>7. ClaimsFollowRow'
  BY <1>4 DEF ClaimsInv, ClaimsFollowRow
<1> QED
  BY <1>5, <1>6, <1>7 DEF ClaimsInv

LEMMA ClaimsReadSteps ==
    ASSUME TypeOK, ClaimsInv, NEW q \in Reqs, NEW e \in Emails,
           \/ Authenticate(q, e) \/ Refuse(q) \/ SendMail(q) \/ Crash(q)
           \/ \E role \in Roles \cup {None} : ReadUser(q, e, role)
           \/ \E properties \in SUBSET Properties : ReadAssignee(q, e, properties)
    PROVE  ClaimsInv'
<1>1. ASSUME UNCHANGED <<accounts, unsynced>>, ~Is(q, "sync"), NEW c,
             call' = [call EXCEPT ![q] = c], c = None \/ c.op \notin {"insert", "sync"}
      PROVE  ClaimsInv'
  BY <1>1, ClaimsFrame DEF accounts
<1>2. CASE Authenticate(q, e)
  BY <1>1, <1>2 DEF Authenticate, histories, Is
<1>3. CASE Refuse(q)
  BY <1>1, <1>3 DEF Refuse, histories, Is
<1>4. CASE SendMail(q)
  BY <1>1, <1>4 DEF SendMail, UndoMail, GoTo, histories, Is
<1>5. ASSUME NEW role \in Roles \cup {None}, ReadUser(q, e, role) PROVE ClaimsInv'
  BY <1>1, <1>5 DEF ReadUser, histories, Is
<1>6. ASSUME NEW properties \in SUBSET Properties, ReadAssignee(q, e, properties) PROVE ClaimsInv'
  BY <1>1, <1>6 DEF ReadAssignee, histories, Is
<1>7. CASE Crash(q)
  BY <1>7, ClaimsFrame DEF Crash, accounts, Is
<1> QED
  BY <1>2, <1>3, <1>4, <1>5, <1>6, <1>7

(* Signing in, and an edit, leave the row as it is now to be written.      *)
LEMMA ClaimsSync ==
    ASSUME IInv, ClaimsInv, NEW q \in Reqs, ~Is(q, "sync"), NEW d \in Emails, NEW row \in Row,
           users[d] # None, users[d].uid = row.uid,
           users' = [users EXCEPT ![d] = row],
           row = users[d] \/ ~SyncPending(row.uid) \/ row.uid \in unsynced',
           UNCHANGED <<identity, claims>>, unsynced \subseteq unsynced',
           call' = [call EXCEPT ![q] = [op |-> "sync", row |-> row]]
    PROVE  ClaimsInv'
<1>0. TypeOK
  BY DEF IInv
<1>1. PICK c : c = [op |-> "sync", row |-> row] /\ call' = [call EXCEPT ![q] = c]
  OBVIOUS
<1>2. c # None
  BY <1>1, NoneAssumption DEF Sync
<1>3. call'[q] = c /\ \A r \in Reqs : r # q => call'[r] = call[r]
  BY <1>0, <1>1 DEF TypeOK
<1>4. Is(q, "sync")' /\ ~Is(q, "insert")'
  BY <1>1, <1>2, <1>3 DEF Is
<1>5. users'[d] = row /\ \A e \in Emails : e # d => users'[e] = users[e]
  BY <1>0 DEF TypeOK
<1>6. row # None
  BY NoneAssumption
<1>7. SyncPending(row.uid)' /\ \A u : SyncPending(u) => SyncPending(u)'
  BY <1>1, <1>3, <1>4 DEF SyncPending, Is
<1>8. \A u : SyncPending(u)' => SyncPending(u) \/ u = row.uid
  BY <1>1, <1>3, <1>4 DEF SyncPending, Is
<1>9. ClaimsStartEmpty'
  <2>1. ASSUME NEW r \in Reqs, Is(r, "insert")' PROVE call[r].uid # row.uid
    <3>1. r # q /\ Is(r, "insert")
      BY <1>3, <1>4, <2>1 DEF Is
    <3>2. NoRowOf(call[r].uid)
      BY <3>1 DEF IInv, Creating, Owns, Is
    <3> QED
      BY <3>2 DEF NoRowOf
  <2> QED
    BY <1>3, <1>4, <1>8, <2>1 DEF ClaimsInv, ClaimsStartEmpty, Is
<1>10. PendingIsCurrent'
  <2>1. ASSUME NEW r \in Reqs, NEW e \in Emails,
               Is(r, "sync")', users'[e] # None, users'[e].uid = call'[r].row.uid
        PROVE  call'[r].row.uid \in unsynced' \/ call'[r].row = users'[e]
    <3>1. CASE r = q
      <4>1. e = d
        BY <1>0, <1>1, <1>3, <1>5, <2>1, <3>1 DEF TypeOK
      <4> QED
        BY <1>1, <1>3, <1>5, <3>1, <4>1
    <3>2. CASE r # q /\ e # d
      BY <1>3, <1>5, <2>1, <3>2 DEF ClaimsInv, PendingIsCurrent, Is
    <3>3. CASE r # q /\ e = d
      <4>1. Is(r, "sync") /\ call'[r] = call[r] /\ call[r].row.uid = row.uid
        BY <1>3, <1>5, <2>1, <3>3 DEF Is
      <4>2. SyncPending(row.uid)
        BY <4>1 DEF SyncPending
      <4> QED
        BY <1>5, <3>3, <4>1, <4>2 DEF ClaimsInv, PendingIsCurrent
    <3> QED
      BY <3>1, <3>2, <3>3
  <2> QED
    BY <2>1 DEF PendingIsCurrent
<1>11. ClaimsFollowRow'
  BY <1>5, <1>7 DEF ClaimsInv, ClaimsFollowRow
<1> QED
  BY <1>9, <1>10, <1>11 DEF ClaimsInv

LEMMA ClaimsEditSteps ==
    ASSUME IInv, NamesOnly, ClaimsInv, NEW q \in Reqs,
           (\E e \in Emails : SyncAuth(q, e)) \/ WriteUser(q)
    PROVE  ClaimsInv'
<1>0. TypeOK
  BY DEF IInv
<1>1. ASSUME NEW e \in Emails, SyncAuth(q, e) PROVE ClaimsInv'
  <2>1. users[e] \in Row /\ users' = [users EXCEPT ![e] = users[e]]
    BY <1>0, <1>1 DEF SyncAuth, TypeOK, accounts
  <2>2. call' = [call EXCEPT ![q] = [op |-> "sync", row |-> users[e]]] /\ ~Is(q, "sync")
        /\ users[e] # None /\ UNCHANGED <<identity, claims, unsynced>>
    BY <1>1 DEF SyncAuth, accounts, histories, Is
  <2> QED
    BY <2>1, <2>2, ClaimsSync
<1>2. CASE WriteUser(q)
  <2> DEFINE d == call[q].email
  <2>1. ~Is(q, "sync") /\ ~Is(q, "insert") /\ UNCHANGED <<identity, claims>>
        /\ (Is(q, "update") \/ Is(q, "assign")) /\ unsynced \subseteq unsynced'
    BY <1>2 DEF WriteUser, Is
  <2>2. CASE ~(users[d] # None /\ users[d].uid = call[q].read.uid)
    <3>1. call' = [call EXCEPT ![q] = None] /\ UNCHANGED <<users, unsynced>>
      BY <1>2, <2>2 DEF WriteUser
    <3> QED
      BY <1>0, <2>1, <3>1, ClaimsFrame
  <2>3. CASE users[d] # None /\ users[d].uid = call[q].read.uid
    <3>1. PICK row : row = Written(q, users[d])
      OBVIOUS
    <3>2. row \in Row /\ row.uid = users[d].uid /\ d \in Emails
      BY <1>0, <2>1, <2>3, <3>1, WrittenKind DEF Change
    <3>3. users' = [users EXCEPT ![d] = row]
      BY <1>2, <2>3, <3>1 DEF WriteUser
    <3>4. users[d] # call[q].read \/ SyncPending(row.uid) => row.uid \in unsynced'
      BY <1>2, <2>3, <3>2 DEF WriteUser
    <3>5. CASE call[q].sync
      <4>1. call' = [call EXCEPT ![q] = [op |-> "sync", row |-> row]]
        BY <1>2, <2>3, <3>1, <3>5 DEF WriteUser, Returned
      <4> QED
        BY <2>1, <2>3, <3>2, <3>3, <3>4, <4>1, ClaimsSync
    <3>6. CASE ~call[q].sync
      <4>1. call' = [call EXCEPT ![q] = None]
        BY <1>2, <2>3, <3>6 DEF WriteUser
      <4>2. CASE users[d] = call[q].read
        <5>1. row = users[d]
          BY <1>0, <2>1, <2>3, <3>1, <3>6, <4>2, WrittenFresh
        <5>2. UNCHANGED users
          BY <1>0, <3>3, <5>1 DEF TypeOK
        <5> QED
          BY <1>0, <2>1, <4>1, <5>2, ClaimsFrame
      <4>3. CASE users[d] # call[q].read
        <5>1. users'[d] = row /\ (\A e \in Emails : e # d => users'[e] = users[e]) /\ row # None
          BY <1>0, <3>2, <3>3, NoneAssumption DEF TypeOK
        <5>2. row.uid \in unsynced'
          BY <3>4, <4>3
        <5>3. ~Is(q, "sync")' /\ ~Is(q, "insert")' /\ \A r \in Reqs : r # q => call'[r] = call[r]
          BY <1>0, <4>1 DEF TypeOK, Is
        <5>4. \A u : SyncPending(u)' <=> SyncPending(u)
          BY <2>1, <5>3 DEF SyncPending, Is
        <5>5. ClaimsStartEmpty'
          BY <2>1, <5>3, <5>4 DEF ClaimsInv, ClaimsStartEmpty, Is
        <5>6. PendingIsCurrent'
          BY <2>1, <5>1, <5>2, <5>3 DEF ClaimsInv, PendingIsCurrent, Is
        <5>7. ClaimsFollowRow'
          BY <2>1, <5>1, <5>2, <5>4 DEF ClaimsInv, ClaimsFollowRow
        <5> QED
          BY <5>5, <5>6, <5>7 DEF ClaimsInv
      <4> QED
        BY <4>2, <4>3
    <3> QED
      BY <3>5, <3>6
  <2> QED
    BY <2>2, <2>3
<1> QED
  BY <1>1, <1>2

(* What is written as claims is the row, or known to be out of step.       *)
LEMMA ClaimsWriteStep ==
    ASSUME TypeOK, ClaimsInv, NEW q \in Reqs, SetCustomClaims(q)
    PROVE  ClaimsInv'
<1>1. PICK row : row = call[q].row
  OBVIOUS
<1>2. Is(q, "sync") /\ row \in Row /\ row.uid \in Uids
  BY <1>1, CallKinds DEF SetCustomClaims, Is, Sync, Row
<1>3. CASE unsynced' = unsynced \cup {row.uid} /\ UNCHANGED claims
  BY <1>1, <1>2, <1>3, ClaimsFrame DEF SetCustomClaims
<1>4. CASE identity[row.uid] # None /\ claims' = [claims EXCEPT ![row.uid] = row] /\ UNCHANGED unsynced
  <2>1. UNCHANGED <<identity, users>> /\ call' = [call EXCEPT ![q] = None]
    BY DEF SetCustomClaims
  <2>2. ~Is(q, "sync")' /\ ~Is(q, "insert")' /\ \A r \in Reqs : r # q => call'[r] = call[r]
    BY <2>1 DEF TypeOK, Is
  <2>3. claims'[row.uid] = row /\ \A u \in Uids : u # row.uid => claims'[u] = claims[u]
    BY <1>2, <1>4 DEF TypeOK
  <2>4. \A u : SyncPending(u)' => SyncPending(u)
    BY <2>2 DEF SyncPending, Is
  <2>5. \A u : u # row.uid /\ SyncPending(u) => SyncPending(u)'
    BY <1>1, <2>2 DEF SyncPending, Is
  <2>6. SyncPending(row.uid)
    BY <1>1, <1>2 DEF SyncPending
  <2>7. ClaimsStartEmpty'
    <3>1. \A u \in Uids : identity'[u] = None => claims'[u] = None
      BY <1>4, <2>1, <2>3 DEF ClaimsInv, ClaimsStartEmpty
    <3>2. ASSUME NEW r \in Reqs, Is(r, "insert")'
          PROVE  (claims[call[r].uid] = None /\ ~SyncPending(call[r].uid))'
      <4>1. Is(r, "insert") /\ call'[r] = call[r] /\ call[r].uid \in Uids
        BY <2>2, <3>2, CreationKind DEF Is, Creating, Creation
      <4>2. claims[call[r].uid] = None /\ ~SyncPending(call[r].uid)
        BY <4>1 DEF ClaimsInv, ClaimsStartEmpty
      <4>3. call[r].uid # row.uid
        BY <2>6, <4>2
      <4> QED
        BY <2>3, <2>4, <4>1, <4>2, <4>3
    <3> QED
      BY <3>1, <3>2 DEF ClaimsStartEmpty
  <2>8. PendingIsCurrent'
    BY <1>4, <2>1, <2>2 DEF ClaimsInv, PendingIsCurrent, Is
  <2>9. ClaimsFollowRow'
    <3>1. ASSUME NEW e \in Emails, users[e] # None, users[e].uid = row.uid
          PROVE  row.uid \in unsynced \/ claims'[row.uid] = users[e]
      BY <1>1, <1>2, <2>3, <3>1 DEF ClaimsInv, PendingIsCurrent
    <3>2. ASSUME NEW e \in Emails, users[e] # None, users[e].uid # row.uid
          PROVE  \/ users[e].uid \in unsynced \/ claims'[users[e].uid] \in {None, users[e]}
                 \/ SyncPending(users[e].uid)'
      <4>1. users[e].uid \in Uids
        BY <3>2 DEF TypeOK, Row
      <4> QED
        BY <2>1, <2>3, <2>5, <3>2, <4>1 DEF ClaimsInv, ClaimsFollowRow
    <3> QED
      BY <1>4, <2>1, <3>1, <3>2 DEF ClaimsFollowRow
  <2> QED
    BY <2>7, <2>8, <2>9 DEF ClaimsInv
<1> QED
  BY <1>1, <1>3, <1>4 DEF SetCustomClaims

(* A fresh identity has no claims, no row and nothing to be written.       *)
LEMMA ClaimsCreateStep ==
    ASSUME TypeOK, ClaimsInv, NEW q \in Reqs, NEW e \in Emails, NEW role \in Roles,
           CreateIdentity(q, e, role)
    PROVE  ClaimsInv'
<1>1. PICK u \in Uids :
          /\ Fresh(u)
          /\ identity' = [identity EXCEPT ![u] = e] /\ unsynced' = unsynced \ {u}
          /\ call' = [call EXCEPT ![q] = [op |-> "insert", email |-> e, uid |-> u, role |-> role]]
  BY DEF CreateIdentity
<1>2. PICK c : /\ c = [op |-> "insert", email |-> e, uid |-> u, role |-> role]
               /\ call' = [call EXCEPT ![q] = c]
  BY <1>1
<1>3. call'[q] = c /\ (\A r \in Reqs : r # q => call'[r] = call[r]) /\ UNCHANGED <<claims, users>>
  BY <1>2 DEF TypeOK, CreateIdentity
<1>4. ~Is(q, "sync") /\ ~Is(q, "sync")'
  BY <1>2, <1>3 DEF CreateIdentity, Is
<1>5. identity[u] = None /\ claims[u] = None
  BY <1>1 DEF Fresh, ClaimsInv, ClaimsStartEmpty
<1>6. \A d \in Emails : users[d] # None => users[d].uid # u
  BY <1>1 DEF Fresh
<1>7. ~SyncPending(u)
  BY <1>1 DEF Fresh, SyncPending, Is
<1>8. \A v : SyncPending(v)' <=> SyncPending(v)
  BY <1>3, <1>4 DEF SyncPending, Is
<1>9. ClaimsStartEmpty'
  <2>1. \A v \in Uids : identity'[v] = None => claims'[v] = None
    BY <1>1, <1>3, <1>5 DEF TypeOK, ClaimsInv, ClaimsStartEmpty
  <2>2. \A r \in Reqs : Is(r, "insert")' => (claims[call[r].uid] = None /\ ~SyncPending(call[r].uid))'
    BY <1>2, <1>3, <1>5, <1>7, <1>8 DEF ClaimsInv, ClaimsStartEmpty, Is
  <2> QED
    BY <2>1, <2>2 DEF ClaimsStartEmpty
<1>10. PendingIsCurrent'
  BY <1>1, <1>3, <1>4, <1>6 DEF ClaimsInv, PendingIsCurrent, Is
<1>11. ClaimsFollowRow'
  BY <1>1, <1>3, <1>6, <1>8 DEF ClaimsInv, ClaimsFollowRow
<1> QED
  BY <1>9, <1>10, <1>11 DEF ClaimsInv

LEMMA ClaimsRowSteps ==
    ASSUME IInv, ClaimsInv, NEW q \in Reqs, InsertUser(q) \/ UndoRow(q)
    PROVE  ClaimsInv'
<1>0. TypeOK /\ Creating(q) /\ (InsertUser(q) => Is(q, "insert"))
  BY DEF IInv, Creating, InsertUser, UndoRow, Is
<1>1. call[q] \in Creation /\ ~Is(q, "sync")
  BY <1>0, CreationKind DEF Creating, Is
<1>2. PICK e \in Emails, u \in Uids : e = call[q].email /\ u = call[q].uid
  BY <1>1 DEF Creation
<1>3. /\ UNCHANGED <<identity, claims, unsynced>> /\ \A d \in Emails : d # e => users'[d] = users[d]
      /\ \A r \in Reqs : r # q => call'[r] = call[r]
  BY <1>0, <1>2 DEF InsertUser, UndoInsert, UndoRow, GoTo, TypeOK
<1>4. ~Is(q, "sync")' /\ ~Is(q, "insert")'
  <2>1. GoTo(q, "mail") \/ GoTo(q, "undo_identity")
    BY DEF InsertUser, UndoInsert, UndoRow
  <2>2. call'[q].op \in {"mail", "undo_identity"}
    BY <1>0, <2>1, GoToType
  <2> QED
    BY <2>2 DEF Is
<1>5. \A v : SyncPending(v)' <=> SyncPending(v)
  BY <1>1, <1>3, <1>4 DEF SyncPending, Is
<1>6. \/ users'[e] = users[e] \/ users'[e] = None
      \/ users'[e].uid = u /\ Is(q, "insert")
  <2>1. users' = users \/ users' = [users EXCEPT ![e] = None]
        \/ (Is(q, "insert") /\ users' = [users EXCEPT ![e] = [uid |-> u, role |-> call[q].role, assigned |-> {}]])
    BY <1>0, <1>2 DEF InsertUser, UndoRow
  <2> QED
    BY <1>0, <2>1 DEF TypeOK
<1>7. Is(q, "insert") => claims[u] = None /\ ~SyncPending(u)
  BY <1>2 DEF ClaimsInv, ClaimsStartEmpty
<1>8. ClaimsStartEmpty'
  BY <1>3, <1>4, <1>5 DEF ClaimsInv, ClaimsStartEmpty, Is
<1>9. PendingIsCurrent'
  <2>1. ASSUME NEW r \in Reqs, NEW d \in Emails,
               Is(r, "sync")', users'[d] # None, users'[d].uid = call'[r].row.uid
        PROVE  call'[r].row.uid \in unsynced' \/ call'[r].row = users'[d]
    <3>1. Is(r, "sync") /\ call'[r] = call[r] /\ SyncPending(call[r].row.uid)
      BY <1>3, <1>4, <2>1 DEF Is, SyncPending
    <3>2. users'[d] = users[d]
      BY <1>3, <1>6, <1>7, <2>1, <3>1
    <3> QED
      BY <1>3, <2>1, <3>1, <3>2 DEF ClaimsInv, PendingIsCurrent
  <2> QED
    BY <2>1 DEF PendingIsCurrent
<1>10. ClaimsFollowRow'
  BY <1>3, <1>5, <1>6, <1>7 DEF ClaimsInv, ClaimsFollowRow
<1> QED
  BY <1>8, <1>9, <1>10 DEF ClaimsInv

(* The claims go with their identity.                                      *)
LEMMA ClaimsUndoStep ==
    ASSUME IInv, ClaimsInv, NEW q \in Reqs, UndoIdentity(q)
    PROVE  ClaimsInv'
<1>0. TypeOK /\ Creating(q) /\ ~Is(q, "sync") /\ ~Is(q, "insert")
  BY DEF IInv, Creating, UndoIdentity, Is
<1>1. PICK u \in Uids : u = call[q].uid
  BY <1>0, CreationKind DEF Creation
<1>2. CASE UNCHANGED <<identity, claims>>
  BY <1>0, <1>2, ClaimsFrame DEF UndoIdentity
<1>3. CASE identity' = [identity EXCEPT ![u] = None] /\ claims' = [claims EXCEPT ![u] = None]
  <2>1. /\ UNCHANGED <<users, unsynced>>
        /\ call'[q] = None /\ \A r \in Reqs : r # q => call'[r] = call[r]
    BY <1>0 DEF UndoIdentity, TypeOK
  <2>2. claims'[u] = None /\ \A v \in Uids : v # u => claims'[v] = claims[v] /\ identity'[v] = identity[v]
    BY <1>0, <1>3 DEF TypeOK
  <2>3. \A v : SyncPending(v)' <=> SyncPending(v)
    BY <1>0, <2>1 DEF SyncPending, Is
  <2>4. ClaimsStartEmpty'
    <3>1. \A v \in Uids : identity'[v] = None => claims'[v] = None
      BY <2>2 DEF ClaimsInv, ClaimsStartEmpty
    <3>2. ASSUME NEW r \in Reqs, Is(r, "insert")'
          PROVE  (claims[call[r].uid] = None /\ ~SyncPending(call[r].uid))'
      <4>1. Is(r, "insert") /\ call'[r] = call[r]
        BY <2>1, <3>2 DEF Is
      <4>2. call[r].uid \in Uids
        BY <1>0, <4>1, CreationKind DEF Creating, Is, Creation
      <4> QED
        BY <2>2, <2>3, <4>1, <4>2 DEF ClaimsInv, ClaimsStartEmpty
    <3> QED
      BY <3>1, <3>2 DEF ClaimsStartEmpty
  <2>5. PendingIsCurrent'
    BY <2>1 DEF ClaimsInv, PendingIsCurrent, Is
  <2>6. ClaimsFollowRow'
    <3>1. \A e \in Emails : users[e] # None => users[e].uid \in Uids
      BY <1>0 DEF TypeOK, Row
    <3> QED
      BY <2>1, <2>2, <2>3, <3>1 DEF ClaimsInv, ClaimsFollowRow
  <2> QED
    BY <2>4, <2>5, <2>6 DEF ClaimsInv
<1> QED
  BY <1>1, <1>2, <1>3 DEF UndoIdentity

LEMMA ClaimsStep ==
    ASSUME IInv, NamesOnly, ClaimsInv, [Next]_vars
    PROVE  ClaimsInv'
<1>0. TypeOK
  BY DEF IInv
<1>1. CASE UNCHANGED vars
  BY <1>1 DEF vars, accounts, histories, ClaimsInv, ClaimsStartEmpty, PendingIsCurrent,
              ClaimsFollowRow, SyncPending, Is
<1>2. ASSUME NEW q \in Reqs, Serve(q) PROVE ClaimsInv'
  <2>1. CASE Refuse(q) \/ SendMail(q) \/ Crash(q)
    BY <1>0, <2>1, FounderAssumption, ClaimsReadSteps
  <2>2. CASE \E e \in Emails : SyncAuth(q, e)
    BY <2>2, ClaimsEditSteps DEF IInv
  <2>3. CASE \E e \in Emails :
                \/ Authenticate(q, e) \/ \E role \in Roles : CreateIdentity(q, e, role)
                \/ \E role \in Roles \cup {None} : ReadUser(q, e, role)
                \/ \E properties \in SUBSET Properties : ReadAssignee(q, e, properties)
    BY <1>0, <2>3, ClaimsReadSteps, ClaimsCreateStep
  <2>4. CASE InsertUser(q) \/ UndoRow(q) \/ UndoIdentity(q) \/ WriteUser(q) \/ SetCustomClaims(q)
    BY <1>0, <2>4, ClaimsRowSteps, ClaimsUndoStep, ClaimsEditSteps, ClaimsWriteStep
  <2> QED
    BY <1>2, <2>1, <2>2, <2>3, <2>4 DEF Serve
<1> QED
  BY <1>1, <1>2 DEF Next

(* The role last asked for is in the row, whatever edits of names and      *)
(* assignments are under way, unless edits of a row overlapped; and the    *)
(* claims are a row that was once there, is still there or is about to be  *)
(* written, unless a write of claims failed or overlapped an edit.         *)
THEOREM RolesHonoured == Spec => []RolesAsAsked
<1>1. Init => RoleInv /\ ClaimsInv
  <2> SUFFICES ASSUME Init PROVE RoleInv /\ ClaimsInv
    OBVIOUS
  <2>1. \A q \in Reqs : call[q] = None
    BY DEF Init
  <2>2. \A e \in Emails : users[e] # None => users[e].role = "admin" /\ asked[e] = "admin"
    BY DEF Init, FoundersRow
  <2>3. \A u \in Uids : claims[u] = None
    BY DEF Init
  <2>4. \A e \in Emails : users[e] # None => users[e].uid \in Uids
    BY FounderAssumption DEF Init, FoundersRow
  <2> QED
    BY <2>1, <2>2, <2>3, <2>4
       DEF RoleInv, NamesOnly, RoleAsAsked, ClaimsInv, ClaimsStartEmpty, PendingIsCurrent,
           ClaimsFollowRow, Is
<1>2. IInv /\ RoleInv /\ ClaimsInv /\ [Next]_vars => RoleInv' /\ ClaimsInv'
  BY RoleStep, ClaimsStep DEF IInv, RoleInv
<1>3. RoleInv /\ ClaimsInv => RolesAsAsked
  BY DEF RoleInv, ClaimsInv, RolesAsAsked
<1> QED
  BY <1>1, <1>2, <1>3, InitIInv, StepKeepsIInv, PTL DEF Spec
=============================================================================
