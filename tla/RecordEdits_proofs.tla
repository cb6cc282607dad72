------------------------- MODULE RecordEdits_proofs -------------------------
(* Proofs about RecordEdits, for any number of requests, values of a       *)
(* column and versions of a row; and about AttachmentUpload, for every set *)
(* of users, resources, nonces and request slots.                          *)
EXTENDS RecordEditHistories, AttachmentUpload, SequenceTheorems, TLAPS

(***************************************************************************)
(* Columns, and what an edit makes of them.                                *)
(***************************************************************************)

LEMMA ColumnsType ==
    ASSUME NEW v
    PROVE  v \in Columns <=> v \in [Fields -> Values \cup {Blank}] /\ v["title"] \in Values
<1>1. ASSUME v \in Columns
      PROVE  v \in [Fields -> Values \cup {Blank}] /\ v["title"] \in Values
  BY <1>1 DEF Columns, Fields
<1>2. ASSUME v \in [Fields -> Values \cup {Blank}], v["title"] \in Values
      PROVE  v \in Columns
  BY <1>2 DEF Columns, Fields
<1> QED
  BY <1>1, <1>2

LEMMA AskType ==
    ASSUME NEW a \in Asks \cup {NoAsk}
    PROVE  /\ DOMAIN a \subseteq Fields
           /\ \A f \in DOMAIN a : a[f] \in Values \cup {Blank} /\ (f = "title" => a[f] \in Values)
BY DEF Asks, NoAsk, Columns, Fields

LEMMA EditedType ==
    ASSUME NEW v \in [Fields -> Values \cup {Blank}], NEW a \in Asks \cup {NoAsk}
    PROVE  /\ Edited(v, a) \in [Fields -> Values \cup {Blank}]
           /\ v \in Columns => Edited(v, a) \in Columns
           /\ \A f \in Fields : Edited(v, a)[f] = IF f \in DOMAIN a THEN a[f] ELSE v[f]
<1>1. \A f \in Fields : Edited(v, a)[f] = IF f \in DOMAIN a THEN a[f] ELSE v[f]
  BY DEF Edited
<1>2. Edited(v, a) \in [Fields -> Values \cup {Blank}]
  BY AskType DEF Edited
<1>3. v \in Columns => Edited(v, a)["title"] \in Values
  BY <1>1, AskType, ColumnsType DEF Fields
<1> QED
  BY <1>1, <1>2, <1>3, ColumnsType

LEMMA EditedElsewhere ==
    ASSUME NEW v, NEW a, NEW f \in Fields, f \notin DOMAIN a
    PROVE  Edited(v, a)[f] = v[f]
BY DEF Edited

LEMMA SeenType ==
    ASSUME NEW n \in 0..MaxVersion
    PROVE  n # None
BY EditsAssumption

LEMMA VersionType ==
    ASSUME NEW n \in 0..MaxVersion, n < MaxVersion
    PROVE  n \in Nat /\ n # None /\ 0 < MaxVersion /\ n <= n
BY EditsAssumption

LEMMA ColumnsAsked ==
    ASSUME NEW v \in Columns
    PROVE  v \in Asks /\ DOMAIN v = Fields
BY DEF Columns, Asks, Fields

(***************************************************************************)
(* The invariant: what a request that runs knows of the row it has read.   *)
(***************************************************************************)
RowGood ==
    /\ row \in Row
    /\ row.exists => row.value \in Columns
    /\ ~row.exists => /\ kind = "profile" /\ row.version = 0
                       /\ row.value = [f \in Fields |-> Blank]
    /\ row.removed => row.exists /\ kind \in {"property", "room", "repair"}

(* The kinds of records that each request is about, and its form.          *)
Formed(k) ==
    /\ k \in Request
    /\ kind # "repair"
    /\ k.op \in {"maintain", "remove"} => k.ask = NoAsk
    /\ k.op = "maintain" => kind = "room"
    /\ k.op = "remove" => kind \in {"property", "room"}
    /\ k.op = "hide" => kind = "faq"
    /\ k.op = "create" => k.seen = None
    /\ k.seen = None => kind = "profile" /\ k.form = k.ask
    /\ k.status = "maintenance" => kind = "room"
    /\ \A f \in DOMAIN k.ask : k.form[f] = k.ask[f]

(* The columns of a room that a write may set back: those that were        *)
(* changed behind it, and one that SetRoomMaintenance leaves out.          *)
Back(k, behindIt) ==
    (behindIt \ DOMAIN k.ask) \cup (IF k.op = "maintain" THEN {"detail"} ELSE {})

(* What request k knows of row r: if the version is the one it has read,   *)
(* so are the columns, and a room's columns are but for those behind it.   *)
Knows(k, r, behindIt) ==
    /\ 0 < MaxVersion
    /\ k.seen # None => r.exists /\ k.seen < MaxVersion /\ k.seen <= r.version
    /\ kind # "room" /\ k.seen = r.version => k.form = Edited(r.value, k.ask)
    /\ kind = "room" => \A f \in Fields \ (DOMAIN k.ask \cup Back(k, behindIt)) : k.form[f] = r.value[f]

(* No other request was saved since, and its own will be.                  *)
InTime(k, r) ==
    IF kind = "profile"
    THEN /\ k.seen = IF r.exists THEN r.version ELSE None
         /\ r.exists => k.op # "create"
    ELSE r.exists /\ ~r.removed /\ (kind # "room" => k.seen = r.version)

EditInv ==
    /\ kind \in Kinds /\ RowGood
    /\ txn \in [Reqs -> Request \cup Answer \cup {None}]
    /\ latest \in [Fields -> Values \cup {Blank}] /\ SavedChangesStand
    /\ behind \in [Reqs -> SUBSET Fields]
    /\ \A q \in Reqs : Running(q) =>
           /\ Formed(txn[q]) /\ Knows(txn[q], row, behind[q])
           /\ q \notin overtaken => InTime(txn[q], row)
    /\ RefusedOnlyIfOvertaken

LEMMA RequestType ==
    ASSUME NEW k \in Request
    PROVE  /\ k # None /\ k.op \in {"edit", "create", "hide", "maintain", "remove"}
           /\ k.op # "answered" /\ k.ask \in Asks \cup {NoAsk} /\ k.form \in Columns
           /\ k.status \in {"", "maintenance"} /\ k.seen \in (0..MaxVersion) \cup {None}
BY NoneIsNoRequest DEF Request

LEMMA AnswerType ==
    ASSUME NEW s \in BOOLEAN, NEW a \in Asks \cup {NoAsk}
    PROVE  /\ [op |-> "answered", saved |-> s, ask |-> a] \in Answer
           /\ [op |-> "answered", saved |-> s, ask |-> a] # None
BY NoneIsNoRequest DEF Answer

(* A request that is saved: it sets the columns it was asked to set, and   *)
(* no other, but for those it may set back, and gives the row a new        *)
(* version where there are any.                                            *)
LEMMA SavedStep ==
    ASSUME EditInv, HistoryStep, NEW q \in Reqs, NEW a \in Asks \cup {NoAsk},
           txn[q] = None \/ (Running(q) /\ txn[q].ask = a),
           Answered(q, TRUE, a), kind' = kind, RowGood',
           \A f \in DOMAIN a : row'.value[f] = a[f],
           \A f \in Fields \ DOMAIN a : row'.value[f] = row.value[f] \/ f \in MaySetBack(q),
           row.exists => row'.exists, row.version <= row'.version,
           kind \notin {"room", "repair"} /\ row.exists => row.version < row'.version
    PROVE  EditInv'
<1>1. /\ txn'[q] = [op |-> "answered", saved |-> TRUE, ask |-> a]
      /\ \A p \in Reqs \ {q} : txn'[p] = txn[p]
  BY DEF Answered, EditInv
<1>2. txn'[q] # None /\ txn'[q].op = "answered" /\ txn'[q].saved /\ txn'[q].ask = a
  <2>1. [op |-> "answered", saved |-> TRUE, ask |-> a] # None
    BY AnswerType
  <2> QED
    BY <1>1, <2>1
<1>3. Saves(q) /\ \A p \in Reqs \ {q} : ~Saves(p)
  BY <1>1, <1>2 DEF Saves, Running
<1>4. Saved(q)
  BY <1>3 DEF HistoryStep
<1>5. \A p \in Reqs : Running(p)' => p # q /\ Running(p) /\ txn'[p] = txn[p]
  BY <1>1, <1>2 DEF Running
<1>6. latest' \in [Fields -> Values \cup {Blank}]
  BY <1>2, <1>4, EditedType DEF Saved, EditInv
<1>7. SavedChangesStand'
  <2>1. ASSUME NEW f \in Fields
        PROVE  row'.value[f] = latest'[f] \/ f \in undone'
    <3>1. latest'[f] = IF f \in DOMAIN a THEN a[f] ELSE latest[f]
      BY <1>2, <1>4, EditedType DEF Saved, EditInv
    <3>2. undone' = (undone \ DOMAIN a) \cup MaySetBack(q)
      BY <1>2, <1>4 DEF Saved
    <3> QED
      BY <3>1, <3>2 DEF EditInv, SavedChangesStand
  <2> QED
    BY <2>1 DEF SavedChangesStand
<1>8. \A p \in Reqs : Running(p)' => p \in overtaken' /\ behind'[p] = behind[p] \cup Changed
  BY <1>4, <1>5 DEF Saved
<1>9. behind' \in [Reqs -> SUBSET Fields]
  BY <1>4 DEF Saved, EditInv, Changed
<1>10. ASSUME NEW p \in Reqs, Running(p)'
       PROVE  Formed(txn[p])' /\ Knows(txn[p], row, behind[p])'
  <2>1. PICK k \in Request : k = txn[p] /\ k = txn'[p]
    BY <1>5, <1>10 DEF EditInv, Formed
  <2>2. Formed(k) /\ Knows(k, row, behind[p]) /\ kind # "repair"
    BY <1>5, <1>10, <2>1 DEF EditInv, Formed
  <2>3. Formed(k)'
    BY <2>2 DEF Formed
  <2>4. /\ k.seen # None => row'.exists /\ k.seen < MaxVersion /\ k.seen <= row'.version
        /\ kind # "room" => k.seen # row'.version
    <3>1. row.version \in 0..MaxVersion /\ row'.version \in 0..MaxVersion /\ MaxVersion \in Nat
      BY EditsAssumption DEF EditInv, RowGood, Row
    <3>2. k.seen # None => k.seen \in 0..MaxVersion
      BY RequestType
    <3> QED
      BY <2>2, <3>1, <3>2, EditsAssumption DEF Knows
  <2>5. ASSUME NEW f \in Fields, f \notin DOMAIN k.ask, f \notin Back(k, behind'[p]), kind = "room"
        PROVE  k.form[f] = row'.value[f]
    <3>1. f \notin Changed /\ f \notin Back(k, behind[p])
      BY <1>8, <1>10, <2>5 DEF Back
    <3> QED
      BY <2>2, <2>5, <3>1 DEF Knows, Changed
  <2>6. Knows(k, row, behind[p])'
    BY <2>2, <2>4, <2>5 DEF Knows
  <2> QED
    BY <2>1, <2>3, <2>6
<1>11. RefusedOnlyIfOvertaken'
  <2>1. overtaken \subseteq overtaken'
    BY <1>4 DEF Saved
  <2> QED
    BY <1>1, <1>2, <2>1 DEF EditInv, RefusedOnlyIfOvertaken
<1>12. txn' \in [Reqs -> Request \cup Answer \cup {None}]
  BY AnswerType DEF Answered, EditInv
<1> QED
  BY <1>6, <1>7, <1>8, <1>9, <1>10, <1>11, <1>12 DEF EditInv
(* A step that saves nothing: requests begin and end, and one is refused   *)
(* that another was saved before.                                          *)
LEMMA UnsavedStep ==
    ASSUME EditInv, HistoryStep, kind' = kind, RowGood',
           txn' \in [Reqs -> Request \cup Answer \cup {None}],
           row'.value = row.value, row'.version = row.version,
           row'.exists = row.exists, row'.removed = row.removed,
           \A p \in Reqs :
               \/ txn'[p] = txn[p] \/ txn'[p] = None
               \/ txn'[p] \in Answer /\ ~txn'[p].saved /\ p \in overtaken
               \/ /\ Formed(txn'[p]) /\ Knows(txn'[p], row, behind[p])
                  /\ p \notin overtaken => InTime(txn'[p], row)
    PROVE  EditInv'
<1>1. ASSUME NEW p \in Reqs
      PROVE  ~Saves(p)
  BY <1>1, RequestType DEF Saves, Formed
<1>2. NothingSaved
  BY <1>1 DEF HistoryStep
<1>3. latest' = latest /\ SavedChangesStand'
  BY <1>2 DEF NothingSaved, EditInv, SavedChangesStand
<1>4. \A p \in Reqs : Running(p)' => behind'[p] = behind[p] /\ (p \notin overtaken' => p \notin overtaken)
  BY <1>2 DEF NothingSaved, Running
<1>5. behind' \in [Reqs -> SUBSET Fields]
  BY <1>2 DEF NothingSaved, EditInv
<1>6. ASSUME NEW p \in Reqs, Running(p)'
      PROVE  /\ Formed(txn[p])' /\ Knows(txn[p], row, behind[p])'
             /\ p \notin overtaken' => InTime(txn[p], row)'
  <2>1. PICK k : k = txn'[p]
    OBVIOUS
  <2>2. /\ Formed(k) /\ Knows(k, row, behind[p])
        /\ p \notin overtaken => InTime(k, row)
    <3>1. CASE txn'[p] = txn[p]
      BY <1>6, <2>1, <3>1 DEF Running, EditInv
    <3>2. CASE txn'[p] \in Answer
      BY <1>6, <3>2 DEF Running, Answer
    <3> QED
      BY <1>6, <2>1, <3>1, <3>2 DEF Running
  <2>3. Formed(k)'
    BY <2>2 DEF Formed
  <2>4. Knows(k, row, behind[p])'
    BY <1>4, <1>6, <2>2 DEF Knows
  <2>5. p \notin overtaken' => InTime(k, row)'
    BY <1>4, <1>6, <2>2 DEF InTime
  <2> QED
    BY <2>1, <2>3, <2>4, <2>5
<1>7. RefusedOnlyIfOvertaken'
  <2>1. ASSUME NEW p \in Reqs, txn'[p] # None, txn'[p].op = "answered", ~txn'[p].saved
        PROVE  p \in overtaken
    BY <2>1, RequestType DEF EditInv, RefusedOnlyIfOvertaken, Formed
  <2> QED
    BY <1>2, <2>1 DEF RefusedOnlyIfOvertaken, NothingSaved
<1> QED
  BY <1>3, <1>5, <1>6, <1>7 DEF EditInv

(* A request reads the row.                                                *)
LEMMA BeginStep ==
    ASSUME EditInv, HistoryStep, NEW q \in Reqs, NEW op, NEW ask, NEW form, NEW status,
           Begin(q, op, ask, form, status), kind # "repair",
           op \in {"edit", "hide", "maintain", "remove"}, ask \in Asks \cup {NoAsk}, form \in Columns,
           op \in {"maintain", "remove"} => ask = NoAsk,
           op = "maintain" => kind = "room", op = "remove" => kind \in {"property", "room"},
           op = "hide" => kind = "faq", status = "" \/ (status = "maintenance" /\ kind = "room"),
           Live \/ kind = "profile", row.exists \/ form = ask,
           row.exists /\ op # "maintain" => form = Edited(row.value, ask),
           op = "maintain" => form["title"] = row.value["title"]
    PROVE  EditInv'
<1> DEFINE k == [op |-> op, ask |-> ask, form |-> form, status |-> status,
                 seen |-> IF row.exists THEN row.version ELSE None]
<1>1. row.version \in 0..MaxVersion /\ row.version < MaxVersion /\ MaxVersion \in Nat
  BY EditsAssumption DEF EditInv, RowGood, Row, Begin
<1>2. k \in Request
  BY <1>1 DEF Request
<1>3. /\ k.op = op /\ k.ask = ask /\ k.form = form /\ k.status = status
      /\ k.seen = IF row.exists THEN row.version ELSE None
  OBVIOUS
<1>4. txn' = [txn EXCEPT ![q] = k] /\ UNCHANGED <<kind, row>>
  BY DEF Begin
<1> HIDE DEF k
<1>5. /\ row.version \in Nat /\ row.version # None
      /\ ~row.exists => kind = "profile" /\ form = ask
      /\ 0 < MaxVersion
  <2>1. row.version \in Nat /\ row.version # None /\ 0 < MaxVersion
    BY <1>1, VersionType
  <2>2. ~row.exists => kind = "profile" /\ form = ask
    BY DEF EditInv, RowGood
  <2> QED
    BY <2>1, <2>2
<1>6. row.value \in [Fields -> Values \cup {Blank}]
  BY ColumnsType DEF EditInv, RowGood
<1>7. \A f \in DOMAIN ask : f \in Fields /\ form[f] = ask[f]
  <2>1. CASE op = "maintain"
    BY <2>1 DEF NoAsk
  <2>2. CASE op # "maintain"
    <3>1. DOMAIN ask \subseteq Fields
      BY AskType
    <3>2. row.exists => \A f \in DOMAIN ask : Edited(row.value, ask)[f] = ask[f]
      BY <1>6, <3>1, EditedType
    <3> QED
      BY <2>2, <3>1, <3>2
  <2> QED
    BY <2>1, <2>2
<1>8. Formed(k)
  <2>1. k.seen = None => kind = "profile" /\ k.form = k.ask
    BY <1>3, <1>5
  <2> QED
    BY <1>2, <1>3, <1>7, <2>1 DEF Formed
<1>9. Knows(k, row, behind[q])
  <2>1. /\ 0 < MaxVersion
        /\ k.seen # None => row.exists /\ k.seen < MaxVersion /\ k.seen <= row.version
    <3>1. row.exists => k.seen = row.version
      BY <1>3
    <3>2. ~row.exists => k.seen = None
      BY <1>3
    <3>3. row.version <= row.version
      BY <1>1, VersionType
    <3>4. CASE row.exists
      BY <1>1, <1>5, <3>1, <3>3, <3>4
    <3>5. CASE ~row.exists
      BY <1>5, <3>2, <3>5
    <3> QED
      BY <3>4, <3>5
  <2>2. kind # "room" /\ k.seen = row.version => k.form = Edited(row.value, k.ask)
    <3>1. k.seen = row.version => row.exists
      BY <1>3, <1>5
    <3> QED
      BY <1>3, <3>1
  <2>3. ASSUME kind = "room", NEW f \in Fields, f \notin DOMAIN k.ask, f \notin Back(k, behind[q])
        PROVE  k.form[f] = row.value[f]
    <3>1. CASE op = "maintain"
      BY <1>3, <2>3, <3>1 DEF Back, Fields
    <3>2. CASE op # "maintain"
      <4>1. row.exists /\ form = Edited(row.value, ask)
        BY <2>3, <3>2 DEF Live
      <4>2. Edited(row.value, ask)[f] = row.value[f]
        BY <1>3, <2>3, EditedElsewhere
      <4> QED
        BY <1>3, <4>1, <4>2
    <3> QED
      BY <3>1, <3>2
  <2> QED
    BY <2>1, <2>2, <2>3 DEF Knows
<1>10. InTime(k, row)
  BY <1>3 DEF InTime, Live
<1>11. txn' \in [Reqs -> Request \cup Answer \cup {None}] /\ RowGood'
  BY <1>2, <1>4 DEF EditInv, RowGood, Row
<1>12. \A p \in Reqs : txn'[p] = IF p = q THEN k ELSE txn[p]
  BY <1>4 DEF EditInv
<1> QED
  BY <1>4, <1>8, <1>9, <1>10, <1>11, <1>12, UnsavedStep

LEMMA Reads ==
    ASSUME EditInv, HistoryStep, NEW q \in Reqs,
           \/ \E ask \in Asks : ReadTenant(q, ask) \/ ReadProperty(q, ask) \/ ReadRoom(q, ask)
                                \/ OpenFAQItem(q, ask) \/ OpenProfile(q, ask)
           \/ ReadForMaintenance(q) \/ ReadForRemoval(q) \/ OpenFAQItemToHide(q)
    PROVE  EditInv'
<1>1. row.value \in [Fields -> Values \cup {Blank}] /\ (row.exists => row.value \in Columns)
  BY ColumnsType DEF EditInv, RowGood
<1>2. Blank \in Values \cup {Blank} /\ NoAsk \in Asks \cup {NoAsk} /\ Edited(row.value, NoAsk) = row.value
  BY <1>1 DEF Edited, NoAsk
<1>3. row.exists => /\ [row.value EXCEPT !.detail = Blank] \in Columns
                    /\ [row.value EXCEPT !.detail = Blank] = Edited(row.value, [detail |-> Blank])
                    /\ [row.value EXCEPT !.detail = Blank]["title"] = row.value["title"]
  BY <1>1 DEF Columns, Edited, Fields
<1>4. ASSUME NEW ask \in Asks, ReadUnlocked(q, ask), kind # "repair"
      PROVE  EditInv'
  <2>1. Live /\ Begin(q, "edit", ask, Edited(row.value, ask), "") /\ row.exists
    BY <1>4 DEF ReadUnlocked, Live
  <2>2. Edited(row.value, ask) \in Columns
    BY <1>1, <2>1, EditedType
  <2> QED
    BY <1>4, <2>1, <2>2, BeginStep
<1>5. ASSUME NEW ask \in Asks, OpenProfile(q, ask)
      PROVE  EditInv'
  <2>1. CASE row.exists
    <3>1. Begin(q, "edit", ask, Edited(row.value, ask), "") /\ Edited(row.value, ask) \in Columns
      BY <1>5, <2>1 DEF OpenProfile
    <3> QED
      BY <1>5, <2>1, <3>1, BeginStep DEF OpenProfile
  <2>2. CASE ~row.exists
    <3> DEFINE form == Edited(row.value, ask)
    <3>1. Begin(q, "edit", form, form, "") /\ form \in Columns
      BY <1>5, <2>2 DEF OpenProfile
    <3>2. form \in Asks \cup {NoAsk}
      BY <3>1, ColumnsAsked
    <3> HIDE DEF form
    <3> QED
      BY <1>5, <2>2, <3>1, <3>2, BeginStep DEF OpenProfile
  <2> QED
    BY <2>1, <2>2
<1>6. CASE ReadForMaintenance(q)
  <2>1. /\ kind = "room" /\ Live /\ row.exists
        /\ Begin(q, "maintain", NoAsk, [row.value EXCEPT !.detail = Blank], "maintenance")
    BY <1>6 DEF ReadForMaintenance, Live
  <2> QED
    BY <1>2, <1>3, <2>1, BeginStep
<1>7. CASE ReadForRemoval(q)
  <2>1. /\ kind \in {"property", "room"} /\ Live /\ row.exists
        /\ Begin(q, "remove", NoAsk, row.value, "")
    BY <1>7 DEF ReadForRemoval, Live
  <2> QED
    BY <1>1, <1>2, <2>1, BeginStep
<1>8. CASE OpenFAQItemToHide(q)
  <2>1. /\ kind = "faq" /\ Live /\ row.exists
        /\ Begin(q, "hide", [detail |-> Blank], [row.value EXCEPT !.detail = Blank], "")
    BY <1>8 DEF OpenFAQItemToHide, Live, EditInv, RowGood
  <2>2. [detail |-> Blank] \in Asks \cup {NoAsk}
    BY DEF Asks
  <2> QED
    BY <1>3, <2>1, <2>2, BeginStep
<1> QED
  BY <1>4, <1>5, <1>6, <1>7, <1>8 DEF ReadTenant, ReadProperty, ReadRoom, OpenFAQItem
(***************************************************************************)
(* The writes.                                                             *)
(***************************************************************************)

(* A request that is refused had been overtaken.                           *)
LEMMA RefusedStep ==
    ASSUME EditInv, HistoryStep, NEW q \in Reqs, NEW a \in Asks \cup {NoAsk},
           Answered(q, FALSE, a), UNCHANGED <<kind, row>>, q \in overtaken
    PROVE  EditInv'
<1>1. [op |-> "answered", saved |-> FALSE, ask |-> a] \in Answer
  BY AnswerType
<1>2. PICK k \in Answer : k = [op |-> "answered", saved |-> FALSE, ask |-> a]
  BY <1>1
<1>3. ~k.saved
  BY <1>2
<1>4. txn' \in [Reqs -> Request \cup Answer \cup {None}] /\ RowGood'
  BY <1>2 DEF Answered, EditInv, RowGood, Row
<1>5. \A p \in Reqs : txn'[p] = txn[p] \/ (txn'[p] \in Answer /\ ~txn'[p].saved /\ p \in overtaken)
  BY <1>2, <1>3 DEF Answered, EditInv
<1> QED
  BY <1>4, <1>5, UnsavedStep

(* What is known of the request in slot q, and of the row.                 *)
LEMMA RunningType ==
    ASSUME EditInv, NEW q \in Reqs, txn[q] # None,
           txn[q].op \in {"edit", "create", "hide", "maintain", "remove"}
    PROVE  /\ Running(q) /\ txn[q] \in Request /\ Formed(txn[q]) /\ Knows(txn[q], row, behind[q])
           /\ q \notin overtaken => InTime(txn[q], row)
           /\ txn[q].ask \in Asks \cup {NoAsk} /\ txn[q].form \in Columns
           /\ \A f \in DOMAIN txn[q].ask : f \in Fields /\ txn[q].form[f] = txn[q].ask[f]
<1>1. Running(q)
  BY DEF Running
<1>2. Formed(txn[q]) /\ Knows(txn[q], row, behind[q])
  BY <1>1 DEF EditInv
<1>3. q \notin overtaken => InTime(txn[q], row)
  BY <1>1 DEF EditInv
<1>4. txn[q] \in Request
  BY <1>2 DEF Formed
<1>5. txn[q].ask \in Asks \cup {NoAsk} /\ txn[q].form \in Columns
  BY <1>4, RequestType
<1>6. DOMAIN txn[q].ask \subseteq Fields
  BY <1>5, AskType
<1>7. \A f \in DOMAIN txn[q].ask : f \in Fields /\ txn[q].form[f] = txn[q].ask[f]
  BY <1>2, <1>6 DEF Formed
<1> QED
  BY <1>1, <1>2, <1>3, <1>4, <1>5, <1>7

(* The row that a write leaves.                                            *)
LEMMA WrittenRow ==
    ASSUME EditInv, NEW form \in Columns, NEW version \in 0..MaxVersion, NEW s \in StatusOf(kind),
           kind' = kind, row.exists, ~row.removed,
           row' = [row EXCEPT !.value = form, !.version = version, !.status = s]
    PROVE  /\ RowGood' /\ row'.value = form /\ row'.version = version
           /\ row'.exists /\ row'.removed = row.removed
<1>1. row \in Row
  BY DEF EditInv, RowGood
<1>2. /\ row'.value = form /\ row'.version = version /\ row'.status = s
      /\ row'.exists = row.exists /\ row'.removed = row.removed
  BY <1>1 DEF Row
<1>3. row' \in Row'
  BY <1>1 DEF Row, StatusOf
<1> QED
  BY <1>2, <1>3 DEF RowGood

LEMMA StatusType ==
    ASSUME EditInv, NEW s, s = "" \/ (s = "maintenance" /\ kind = "room")
    PROVE  StatusOrKept(s) \in StatusOf(kind)
<1>1. row.status \in StatusOf(kind)
  BY DEF EditInv, RowGood, Row
<1> QED
  BY <1>1 DEF StatusOrKept, StatusOf

(* An update that compares the version.                                    *)
LEMMA GuardedWrite ==
    ASSUME EditInv, HistoryStep, NEW q \in Reqs, NEW op \in {"edit", "hide"},
           kind \in {"property", "tenant", "faq", "profile"}, kind = "profile" => row.exists,
           Write(q, op, SameVersion(q), row.version + 1)
    PROVE  EditInv'
<1>1. txn[q] # None /\ txn[q].op = op /\ kind' = kind
  BY DEF Write
<1>2. PICK k \in Request : k = txn[q]
  BY <1>1, RunningType
<1>3. /\ Running(q) /\ Formed(k) /\ Knows(k, row, behind[q]) /\ k.op = op
      /\ q \notin overtaken => InTime(k, row)
      /\ k.ask \in Asks \cup {NoAsk} /\ k.form \in Columns
      /\ \A f \in DOMAIN k.ask : f \in Fields /\ k.form[f] = k.ask[f]
  BY <1>1, <1>2, RunningType
<1>4. row \in Row /\ (kind = "profile" => ~row.removed)
  BY DEF EditInv, RowGood
<1>5. CASE ~SameVersion(q)
  <2>1. row' = row /\ Answered(q, FALSE, k.ask)
    BY <1>2, <1>5 DEF Write, SameVersion, Live
  <2>2. q \in overtaken
    BY <1>2, <1>3, <1>4, <1>5 DEF SameVersion, Live, InTime
  <2> QED
    BY <1>1, <1>3, <2>1, <2>2, RefusedStep
<1>6. CASE SameVersion(q)
  <2>1. row.exists /\ ~row.removed /\ row.version = k.seen
    BY <1>2, <1>6 DEF SameVersion, Live
  <2>2. /\ row' = [row EXCEPT !.value = k.form, !.version = row.version + 1,
                              !.status = StatusOrKept(k.status)]
        /\ Answered(q, TRUE, k.ask)
    BY <1>2, <1>6 DEF Write, SameVersion, Live
  <2>3. row.version \in 0..MaxVersion /\ row.version < MaxVersion
    <3>1. row.version \in 0..MaxVersion
      BY <1>4 DEF Row
    <3>2. k.seen # None
      BY <2>1, <3>1, SeenType
    <3> QED
      BY <1>3, <2>1, <3>1, <3>2 DEF Knows
  <2>4. row.version + 1 \in 0..MaxVersion /\ row.version < row.version + 1 /\ row.version <= row.version + 1
    BY <2>3, EditsAssumption
  <2>5. StatusOrKept(k.status) \in StatusOf(kind)
    BY <1>3, RequestType, StatusType DEF Formed
  <2>6. RowGood' /\ row'.value = k.form /\ row'.version = row.version + 1 /\ row'.exists
    BY <1>1, <1>3, <2>1, <2>2, <2>4, <2>5, WrittenRow
  <2>7. k.form = Edited(row.value, k.ask)
    BY <1>3, <2>1 DEF Knows
  <2>8. \A f \in Fields \ DOMAIN k.ask : k.form[f] = row.value[f]
    BY <2>7, EditedElsewhere
  <2>9. /\ \A f \in DOMAIN k.ask : row'.value[f] = k.ask[f]
        /\ \A f \in Fields \ DOMAIN k.ask : row'.value[f] = row.value[f] \/ f \in MaySetBack(q)
    BY <1>3, <2>6, <2>8
  <2>10. row.version <= row'.version /\ row.version < row'.version
    BY <2>4, <2>6
  <2> QED
    BY <1>1, <1>2, <1>3, <2>2, <2>6, <2>9, <2>10, SavedStep
<1> QED
  BY <1>5, <1>6

(* An update of a room, which compares none.                               *)
LEMMA RoomWrite ==
    ASSUME EditInv, HistoryStep, NEW q \in Reqs, NEW op \in {"edit", "maintain"},
           kind = "room", Write(q, op, Found(q), row.version)
    PROVE  EditInv'
<1>1. txn[q] # None /\ txn[q].op = op /\ kind' = kind
  BY DEF Write
<1>2. PICK k \in Request : k = txn[q]
  BY <1>1, RunningType
<1>3. /\ Running(q) /\ Formed(k) /\ Knows(k, row, behind[q]) /\ k.op = op
      /\ q \notin overtaken => InTime(k, row)
      /\ k.ask \in Asks \cup {NoAsk} /\ k.form \in Columns
      /\ \A f \in DOMAIN k.ask : f \in Fields /\ k.form[f] = k.ask[f]
  BY <1>1, <1>2, RunningType
<1>4. row \in Row
  BY DEF EditInv, RowGood
<1>5. CASE ~Live
  <2>1. row' = row /\ Answered(q, FALSE, k.ask)
    BY <1>2, <1>5 DEF Write, Found, Live
  <2>2. q \in overtaken
    BY <1>3, <1>5 DEF Live, InTime
  <2> QED
    BY <1>1, <1>3, <2>1, <2>2, RefusedStep
<1>6. CASE Live
  <2>1. row.exists /\ ~row.removed
    BY <1>6 DEF Live
  <2>2. /\ row' = [row EXCEPT !.value = k.form, !.version = row.version,
                              !.status = StatusOrKept(k.status)]
        /\ Answered(q, TRUE, k.ask)
    BY <1>2, <1>6 DEF Write, Found, Live
  <2>3. row.version \in 0..MaxVersion /\ row.version <= row.version
    BY <1>4 DEF Row
  <2>4. StatusOrKept(k.status) \in StatusOf(kind)
    BY <1>3, RequestType, StatusType DEF Formed
  <2>5. RowGood' /\ row'.value = k.form /\ row'.version = row.version /\ row'.exists
    BY <1>1, <1>3, <2>1, <2>2, <2>3, <2>4, WrittenRow
  <2>6. \A f \in Fields \ DOMAIN k.ask : k.form[f] = row.value[f] \/ f \in MaySetBack(q)
    BY <1>2, <1>3 DEF Knows, Back, MaySetBack
  <2>7. /\ \A f \in DOMAIN k.ask : row'.value[f] = k.ask[f]
        /\ \A f \in Fields \ DOMAIN k.ask : row'.value[f] = row.value[f] \/ f \in MaySetBack(q)
    BY <1>3, <2>5, <2>6
  <2>8. row.version <= row'.version
    BY <2>3, <2>5
  <2> QED
    BY <1>1, <1>2, <1>3, <2>2, <2>5, <2>7, <2>8, SavedStep
<1> QED
  BY <1>5, <1>6

(* A row that nobody sees any more keeps its columns.                      *)
LEMMA RemovedRow ==
    ASSUME EditInv, kind' = kind, kind \in {"property", "room", "repair"}, Live,
           NEW version \in 0..MaxVersion,
           row' = [row EXCEPT !.removed = TRUE, !.version = version]
    PROVE  RowGood' /\ row'.value = row.value /\ row'.version = version /\ row'.exists
<1>1. row \in Row /\ row.exists /\ row.value \in Columns
  BY DEF EditInv, RowGood, Live
<1>2. /\ row'.value = row.value /\ row'.version = version /\ row'.status = row.status
      /\ row'.exists = row.exists /\ row'.removed
  BY <1>1 DEF Row
<1>3. row' \in Row'
  BY <1>1 DEF Row, StatusOf
<1> QED
  BY <1>1, <1>2, <1>3 DEF RowGood

LEMMA RemoveStep ==
    ASSUME EditInv, HistoryStep, NEW q \in Reqs, DeleteProperty(q) \/ DeleteRoom(q)
    PROVE  EditInv'
<1>1. /\ kind \in {"property", "room"} /\ kind' = kind
      /\ txn[q] # None /\ txn[q].op = "remove"
  BY DEF DeleteProperty, DeleteRoom, Remove
<1>2. PICK k \in Request : k = txn[q]
  BY <1>1, RunningType
<1>3. /\ Running(q) /\ Formed(k) /\ Knows(k, row, behind[q]) /\ k.ask = NoAsk
      /\ q \notin overtaken => InTime(k, row)
      /\ NoAsk \in Asks \cup {NoAsk} /\ DOMAIN NoAsk = {}
  BY <1>1, <1>2, RunningType DEF Formed, NoAsk
<1>4. row \in Row /\ row.version \in 0..MaxVersion
  BY DEF EditInv, RowGood, Row
<1>5. ASSUME NEW found \in BOOLEAN, NEW version \in 0..MaxVersion, Remove(q, found, version),
             found => Live, ~found => q \in overtaken, row.version <= version,
             kind = "property" /\ found => row.version < version
      PROVE  EditInv'
  <2>1. CASE ~found
    <3>1. row' = row /\ Answered(q, FALSE, NoAsk)
      BY <1>5, <2>1 DEF Remove
    <3> QED
      BY <1>1, <1>3, <1>5, <2>1, <3>1, RefusedStep
  <2>2. CASE found
    <3>1. row' = [row EXCEPT !.removed = TRUE, !.version = version] /\ Answered(q, TRUE, NoAsk)
      BY <1>5, <2>2 DEF Remove
    <3>2. RowGood' /\ row'.value = row.value /\ row'.version = version /\ row'.exists
      BY <1>1, <1>5, <2>2, <3>1, RemovedRow
    <3> QED
      BY <1>1, <1>2, <1>3, <1>5, <2>2, <3>1, <3>2, SavedStep
  <2> QED
    BY <1>5, <2>1, <2>2
<1>6. CASE kind = "room"
  <2>1. Remove(q, Live, row.version) /\ Live \in BOOLEAN /\ row.version <= row.version
    BY <1>4, <1>6 DEF DeleteProperty, DeleteRoom, Found, Live
  <2>2. ~Live => q \in overtaken
    BY <1>3, <1>6 DEF InTime, Live
  <2> QED
    BY <1>4, <1>5, <1>6, <2>1, <2>2
<1>7. CASE kind = "property"
  <2>1. Remove(q, SameVersion(q), row.version + 1) /\ SameVersion(q) \in BOOLEAN
    BY <1>7 DEF DeleteProperty, DeleteRoom, SameVersion, Live
  <2>2. ~SameVersion(q) => q \in overtaken
    BY <1>2, <1>3, <1>7 DEF InTime, Live, SameVersion
  <2>3. SameVersion(q) => Live
    BY DEF SameVersion
  <2>4. CASE SameVersion(q)
    <3>1. row.version < MaxVersion
      BY <1>2, <1>3, <1>4, <1>7, <2>4 DEF SameVersion, Knows, Formed
    <3>2. row.version + 1 \in 0..MaxVersion /\ row.version < row.version + 1 /\ row.version <= row.version + 1
      BY <1>4, <3>1, EditsAssumption
    <3> QED
      BY <1>5, <2>1, <2>3, <2>4, <3>2
  <2>5. CASE ~SameVersion(q)
    <3>1. row' = row /\ Answered(q, FALSE, NoAsk)
      BY <2>1, <2>5 DEF Remove
    <3> QED
      BY <1>1, <1>3, <2>2, <2>5, <3>1, RefusedStep
  <2> QED
    BY <2>4, <2>5
<1> QED
  BY <1>1, <1>6, <1>7
(* The first profile, which only one request can create.                   *)
LEMMA CreateStep ==
    ASSUME EditInv, HistoryStep, NEW q \in Reqs, CreateProfile(q)
    PROVE  EditInv'
<1>1. txn[q] # None /\ txn[q].op = "create" /\ kind' = kind
  BY DEF CreateProfile
<1>2. PICK k \in Request : k = txn[q]
  BY <1>1, RunningType
<1>3. /\ Running(q) /\ Formed(k) /\ Knows(k, row, behind[q]) /\ k.op = "create"
      /\ q \notin overtaken => InTime(k, row)
      /\ k.ask \in Asks \cup {NoAsk} /\ k.form \in Columns
      /\ kind = "profile" /\ k.form = k.ask
  BY <1>1, <1>2, RunningType DEF Formed
<1>4. row \in Row
  BY DEF EditInv, RowGood
<1>5. CASE row.exists
  <2>1. row' = row /\ Answered(q, FALSE, k.ask)
    BY <1>2, <1>5 DEF CreateProfile
  <2>2. q \in overtaken
    BY <1>3, <1>5 DEF InTime
  <2> QED
    BY <1>1, <1>3, <2>1, <2>2, RefusedStep
<1>6. CASE ~row.exists
  <2>1. row' = [row EXCEPT !.exists = TRUE, !.value = k.form, !.version = 1]
    BY <1>2, <1>6 DEF CreateProfile
  <2>2. Answered(q, TRUE, k.ask)
    BY <1>2, <1>6 DEF CreateProfile
  <2>3. row'.exists /\ row'.value = k.form /\ row'.version = 1 /\ row'.removed = row.removed
    BY <1>4, <2>1 DEF Row
  <2>4. 1 \in 0..MaxVersion /\ row.version <= 1
    BY <1>3, <1>6, EditsAssumption DEF Knows, EditInv, RowGood
  <2>5. row' \in Row'
    BY <1>1, <1>3, <1>4, <2>1, <2>4 DEF Row, StatusOf
  <2>6. RowGood'
    BY <1>1, <1>3, <2>3, <2>5 DEF EditInv, RowGood
  <2>7. DOMAIN k.ask = Fields
    BY <1>3, ColumnsAsked
  <2>8. /\ \A f \in DOMAIN k.ask : row'.value[f] = k.ask[f]
        /\ \A f \in Fields \ DOMAIN k.ask : row'.value[f] = row.value[f] \/ f \in MaySetBack(q)
    BY <1>3, <2>3, <2>7
  <2>9. row.version <= row'.version
    BY <2>3, <2>4
  <2> QED
    BY <1>1, <1>2, <1>3, <1>6, <2>2, <2>3, <2>6, <2>8, <2>9, SavedStep
<1> QED
  BY <1>5, <1>6

(* A repair request is read and written under its lock.                    *)
LEMMA RepairStep ==
    ASSUME EditInv, HistoryStep, NEW q \in Reqs,
           (\E ask \in Asks : EditRepair(q, ask)) \/ DeleteRepair(q)
    PROVE  EditInv'
<1>1. kind = "repair" /\ kind' = kind /\ Live /\ txn[q] = None
  BY DEF EditRepair, DeleteRepair
<1>2. /\ row \in Row /\ row.exists /\ ~row.removed /\ row.value \in Columns
      /\ row.version \in 0..MaxVersion
  BY <1>1 DEF EditInv, RowGood, Live, Row
<1>3. row.version <= row.version
  BY <1>2
<1>4. ASSUME NEW ask \in Asks, EditRepair(q, ask)
      PROVE  EditInv'
  <2>1. row' = [row EXCEPT !.value = Edited(row.value, ask)] /\ Answered(q, TRUE, ask)
    BY <1>4 DEF EditRepair, RepairForm
  <2>2. /\ Edited(row.value, ask) \in Columns
        /\ \A f \in Fields : Edited(row.value, ask)[f] = IF f \in DOMAIN ask THEN ask[f] ELSE row.value[f]
        /\ DOMAIN ask \subseteq Fields
    BY <1>2, ColumnsType, EditedType, AskType
  <2>3. PICK form \in Columns : form = Edited(row.value, ask)
    BY <2>2
  <2>4. /\ row'.value = form /\ row'.version = row.version
        /\ row'.exists = row.exists /\ row'.removed = row.removed
    BY <1>2, <2>1, <2>3 DEF Row
  <2>5. row' \in Row'
    BY <1>1, <1>2, <2>1, <2>3 DEF Row, StatusOf
  <2>6. RowGood'
    BY <1>1, <1>2, <2>4, <2>5 DEF RowGood
  <2>7. /\ \A f \in DOMAIN ask : row'.value[f] = ask[f]
        /\ \A f \in Fields \ DOMAIN ask : row'.value[f] = row.value[f]
    BY <2>2, <2>3, <2>4
  <2> QED
    BY <1>1, <1>2, <1>3, <2>1, <2>4, <2>6, <2>7, SavedStep
<1>5. CASE DeleteRepair(q)
  <2>1. row' = [row EXCEPT !.removed = TRUE] /\ Answered(q, TRUE, NoAsk)
    BY <1>5 DEF DeleteRepair
  <2>2. row' = [row EXCEPT !.removed = TRUE, !.version = row.version]
    BY <1>2, <2>1 DEF Row
  <2>3. RowGood' /\ row'.value = row.value /\ row'.version = row.version /\ row'.exists
    BY <1>1, <1>2, <2>2, RemovedRow
  <2>4. NoAsk \in Asks \cup {NoAsk} /\ DOMAIN NoAsk = {}
    BY DEF NoAsk
  <2> QED
    BY <1>1, <1>2, <1>3, <2>1, <2>3, <2>4, SavedStep
<1> QED
  BY <1>4, <1>5

(* An edit turned into a creation is a request with the same wish.         *)
LEMMA Recast ==
    ASSUME NEW k \in Request
    PROVE  LET n == [k EXCEPT !.op = "create"]
           IN  /\ n \in Request /\ n.op = "create" /\ n.ask = k.ask
               /\ n.form = k.form /\ n.status = k.status /\ n.seen = k.seen
BY DEF Request

(* The steps that write no column.                                         *)
LEMMA QuietStep ==
    ASSUME EditInv, HistoryStep,
           \/ \E q \in Reqs : FindNoProfile(q) \/ Return(q)
           \/ \E s \in StatusOf(kind) : ChangeStatus(s)
    PROVE  EditInv'
<1>1. ASSUME NEW q \in Reqs, FindNoProfile(q)
      PROVE  EditInv'
  <2>1. /\ txn[q] # None /\ txn[q].op = "edit" /\ kind = "profile" /\ ~row.exists
        /\ UNCHANGED <<kind, row>>
    BY <1>1 DEF FindNoProfile
  <2>2. PICK k \in Request : k = txn[q]
    BY <2>1, RunningType
  <2>3. Running(q) /\ Formed(k) /\ Knows(k, row, behind[q]) /\ k.op = "edit"
    BY <2>1, <2>2, RunningType
  <2>4. k.seen = None
    BY <2>1, <2>3 DEF Knows
  <2>5. PICK n \in Request : /\ n = [k EXCEPT !.op = "create"] /\ n.op = "create" /\ n.ask = k.ask
                             /\ n.form = k.form /\ n.status = k.status /\ n.seen = k.seen
    BY <2>2, Recast
  <2>6. txn' = [txn EXCEPT ![q] = n]
    BY <1>1, <2>2, <2>5 DEF FindNoProfile
  <2>7. Formed(n)
    BY <2>1, <2>3, <2>4, <2>5 DEF Formed
  <2>8. Knows(n, row, behind[q])
    BY <2>1, <2>3, <2>4, <2>5 DEF Knows
  <2>9. InTime(n, row)
    BY <2>1, <2>4, <2>5 DEF InTime
  <2>10. txn' \in [Reqs -> Request \cup Answer \cup {None}] /\ RowGood'
    BY <2>1, <2>6 DEF EditInv, RowGood, Row
  <2>11. \A p \in Reqs : txn'[p] = IF p = q THEN n ELSE txn[p]
    BY <2>6 DEF EditInv
  <2> QED
    BY <2>1, <2>7, <2>8, <2>9, <2>10, <2>11, UnsavedStep
<1>2. ASSUME NEW q \in Reqs, Return(q)
      PROVE  EditInv'
  <2>1. txn' = [txn EXCEPT ![q] = None] /\ UNCHANGED <<kind, row>>
    BY <1>2 DEF Return
  <2>2. txn' \in [Reqs -> Request \cup Answer \cup {None}] /\ RowGood'
    BY <2>1 DEF EditInv, RowGood, Row
  <2>3. \A p \in Reqs : txn'[p] = txn[p] \/ txn'[p] = None
    BY <2>1 DEF EditInv
  <2> QED
    BY <2>1, <2>2, <2>3, UnsavedStep
<1>3. ASSUME NEW s \in StatusOf(kind), ChangeStatus(s)
      PROVE  EditInv'
  <2>1. row' = [row EXCEPT !.status = s] /\ UNCHANGED <<kind, txn>> /\ row \in Row
    BY <1>3 DEF ChangeStatus, EditInv, RowGood
  <2>2. /\ row'.value = row.value /\ row'.version = row.version
        /\ row'.exists = row.exists /\ row'.removed = row.removed
    BY <2>1 DEF Row
  <2>3. row' \in Row'
    BY <2>1 DEF Row, StatusOf
  <2>4. RowGood'
    BY <2>1, <2>2, <2>3 DEF EditInv, RowGood
  <2>5. txn' \in [Reqs -> Request \cup Answer \cup {None}]
    BY <2>1 DEF EditInv
  <2> QED
    BY <2>1, <2>2, <2>4, <2>5, UnsavedStep
<1> QED
  BY <1>1, <1>2, <1>3

LEMMA EditInvStep == EditInv /\ [HistoryNext]_<<vars, histories>> => EditInv'
<1> SUFFICES ASSUME EditInv, [HistoryNext]_<<vars, histories>> PROVE EditInv'
  OBVIOUS
<1>1. CASE UNCHANGED <<vars, histories>>
  BY <1>1 DEF vars, histories, EditInv, RowGood, Row, StatusOf, SavedChangesStand, Running, Formed,
     Knows, InTime, RefusedOnlyIfOvertaken
<1>2. CASE HistoryNext
  <2>1. HistoryStep
    BY <1>2 DEF HistoryNext
  <2>2. ASSUME NEW q \in Reqs, UpdateProperty(q) \/ UpdateTenant(q) \/ UpdateFAQItem(q)
                               \/ DeactivateFAQItem(q) \/ UpdateProfile(q)
        PROVE  EditInv'
    BY <2>1, <2>2, GuardedWrite DEF UpdateProperty, UpdateTenant, UpdateFAQItem, DeactivateFAQItem,
       UpdateProfile
  <2>3. ASSUME NEW q \in Reqs, UpdateRoom(q) \/ SetRoomMaintenance(q)
        PROVE  EditInv'
    BY <2>1, <2>3, RoomWrite DEF UpdateRoom, SetRoomMaintenance
  <2> QED
    BY <1>2, <2>1, <2>2, <2>3, Reads, RemoveStep, CreateStep, RepairStep, QuietStep
       DEF HistoryNext, Next
<1> QED
  BY <1>1, <1>2

LEMMA EditInvHolds == HistorySpec => []EditInv
<1>1. HistoryInit => EditInv
  <2> SUFFICES ASSUME HistoryInit PROVE EditInv
    OBVIOUS
  <2>1. /\ kind \in Kinds /\ row \in Row /\ (row.exists <=> row.value \in Columns)
        /\ row.exists \/ kind = "profile"
        /\ ~row.removed /\ row.version = 0
        /\ txn = [q \in Reqs |-> None] /\ latest = row.value
        /\ behind = [q \in Reqs |-> {}]
    BY DEF HistoryInit, Init
  <2>2. row.value \in Columns \cup [Fields -> {Blank}]
    BY <2>1 DEF Row
  <2>3. ~row.exists => row.value = [f \in Fields |-> Blank]
    BY <2>1, <2>2
  <2>4. row.value \in [Fields -> Values \cup {Blank}]
    BY <2>2, ColumnsType
  <2>5. \A q \in Reqs : ~Running(q)
    BY <2>1 DEF Running
  <2>6. RowGood
    BY <2>1, <2>3 DEF RowGood
  <2>7. SavedChangesStand /\ RefusedOnlyIfOvertaken
    BY <2>1 DEF SavedChangesStand, RefusedOnlyIfOvertaken
  <2> QED
    BY <2>1, <2>4, <2>5, <2>6, <2>7 DEF EditInv
<1> QED
  BY <1>1, EditInvStep, PTL DEF HistorySpec

(* What is saved stays until another request asks for that column, but for *)
(* what an unguarded write to a room sets back, and nobody is refused whom *)
(* no other request has overtaken: for any number of requests at once.     *)
THEOREM EditsAreHonoured == HistorySpec => []EditsHonoured
<1>1. EditInv => EditsHonoured
  BY DEF EditInv, EditsHonoured, TypeOK, RowGood
<1> QED
  BY <1>1, EditInvHolds, PTL

(* Nothing is written to a record that was removed.                        *)
THEOREM RemovedIsFinal == HistorySpec => RemovedStays
<1> DEFINE A == row.removed => row' = row
<1>1. EditInv /\ [HistoryNext]_<<vars, histories>> => [A]_vars
  <2> SUFFICES ASSUME EditInv, Next, row.removed PROVE row' = row
    BY DEF HistoryNext, vars, histories
  <2>1. ~Live /\ row.exists /\ row \in Row
    BY DEF Live, EditInv, RowGood
  <2>2. \A q \in Reqs : ~SameVersion(q) /\ ~Found(q)
    BY <2>1 DEF SameVersion, Found
  <2> QED
    BY <2>1, <2>2 DEF Next, ReadTenant, ReadProperty, ReadRoom, OpenFAQItem, OpenProfile,
       ReadUnlocked, EditRepair, ReadForMaintenance, ReadForRemoval, OpenFAQItemToHide, Begin,
       UpdateProperty, UpdateTenant, UpdateRoom, SetRoomMaintenance, UpdateFAQItem,
       DeactivateFAQItem, UpdateProfile, Write, FindNoProfile, CreateProfile, DeleteProperty,
       DeleteRoom, Remove, DeleteRepair, Return, ChangeStatus
<1> QED
  BY <1>1, EditInvHolds, PTL DEF HistorySpec, RemovedStays

-----------------------------------------------------------------------------
(* AttachmentUpload.                                                       *)

Calls == Principal \cup Upload \cup OnRow \cup {Nil}

-----------------------------------------------------------------------------
(* The inductive invariant.                                                *)

(* A token or an attachment is of an upload URL that was issued, and a     *)
(* download URL of an attachment.                                          *)
FromIssued ==
    /\ \A n \in Nonces : token[n] # Nil => n \in issued
    /\ \A i \in DOMAIN attachments : attachments[i].nonce \in issued
    /\ \A n \in linked : Registered(n)

(* A nonce that is signed becomes no other request's token; what a request *)
(* has checked is valid unless it was put again since; and every request   *)
(* goes on with rights its user had while it was served.                   *)
UploadGood(q) ==
    /\ Is(q, "signed") => call[q].nonce \notin issued
    /\ Is(q, "found") \/ Is(q, "checked") => call[q].nonce \in issued
    /\ Is(q, "checked") /\ call[q].nonce \notin rewritten => object[call[q].nonce] = "valid"
    /\ Is(q, "signed") \/ Is(q, "found") \/ Is(q, "checked") => <<call[q].of, "write">> \in held[q]

OnRowGood(q) ==
    /\ Is(q, "auth") \/ Is(q, "download") => call[q].allowed \subseteq held[q]
    /\ Is(q, "delete") \/ Is(q, "download") \/ Is(q, "active") => call[q].row \in DOMAIN attachments
    /\ Is(q, "delete") => <<attachments[call[q].row].of, "write">> \in held[q]
    /\ Is(q, "active") => <<attachments[call[q].row].of, "read">> \in held[q]

CallGood(q) == UploadGood(q) /\ OnRowGood(q)

SignedApart ==
    \A p, q \in Slots : Is(p, "signed") /\ Is(q, "signed") /\ call[p].nonce = call[q].nonce => p = q

UploadInv ==
    /\ UploadTypeOK /\ TokenSpentOnce /\ RegisteredObjectChecked
    /\ FromIssued /\ SignedApart
    /\ \A q \in Slots : CallGood(q)

-----------------------------------------------------------------------------
(* What a slot serves, by its step.                                        *)
LEMMA CallKinds ==
    ASSUME UploadTypeOK, NEW q \in Slots
    PROVE  /\ Is(q, "auth") => call[q] \in Principal
           /\ Is(q, "signed") \/ Is(q, "found") \/ Is(q, "checked") => call[q] \in Upload
           /\ Is(q, "delete") \/ Is(q, "active") \/ Is(q, "download") =>
                 call[q].row \in Nat /\ call[q].by \in Users
           /\ Is(q, "download") => call[q].allowed \subseteq Rights
<1>1. call[q] \in Calls
  BY DEF UploadTypeOK, Calls
<1> QED
  BY <1>1 DEF Calls, Is, Principal, Upload, OnRow

LEMMA RowType ==
    ASSUME UploadTypeOK, NEW i \in DOMAIN attachments
    PROVE  attachments[i] \in Attachment
BY DEF UploadTypeOK

(* The access of a user is a set of rights.                                *)
LEMMA AccessIsRights ==
    ASSUME UploadTypeOK, NEW u \in Users
    PROVE  access[u] \subseteq Rights
BY DEF UploadTypeOK, Grants

(***************************************************************************)
(* A step of a request that writes no table: it goes on as c.              *)
(***************************************************************************)
LEMMA CallStep ==
    ASSUME UploadInv, NEW q \in Slots, NEW c \in Calls, NEW rights \in SUBSET Rights,
           call' = [call EXCEPT ![q] = c], held' = [held EXCEPT ![q] = rights],
           UNCHANGED <<hosts, token, storage, attachments, issued, rewritten>>,
           access' \in [Users -> Grants],
           linked' \subseteq Nonces, \A n \in linked' : Registered(n),
           \A n \in linked' \ rewritten : object[n] = "valid",
           CallGood(q)',
           c # Nil /\ c.step = "signed" =>
              \A p \in Slots : Is(p, "signed") => call[p].nonce # c.nonce
    PROVE  UploadInv'
<1>1. UploadTypeOK'
  BY DEF UploadInv, UploadTypeOK, storage, Calls
<1>2. TokenSpentOnce' /\ RegisteredObjectChecked'
  BY DEF UploadInv, TokenSpentOnce, RegisteredObjectChecked, Registered, storage
<1>3. FromIssued'
  BY DEF UploadInv, FromIssued, Registered
<1>4. \A p \in Slots : p # q => call'[p] = call[p] /\ held'[p] = held[p]
  BY DEF UploadInv, UploadTypeOK
<1>5. call'[q] = c
  BY DEF UploadInv, UploadTypeOK
<1>6. SignedApart'
  BY <1>4, <1>5 DEF UploadInv, SignedApart, Is
<1>7. ASSUME NEW p \in Slots, p # q PROVE CallGood(p)'
  BY <1>4, <1>7 DEF UploadInv, CallGood, UploadGood, OnRowGood, Is, storage
<1> QED
  BY <1>1, <1>2, <1>3, <1>6, <1>7 DEF UploadInv

(* The same for a request that ends.                                       *)
LEMMA EndStep ==
    ASSUME UploadInv, NEW q \in Slots, Ended(q),
           UNCHANGED <<access, hosts, token, storage, attachments, issued, rewritten>>,
           linked' \subseteq Nonces, \A n \in linked' : Registered(n),
           \A n \in linked' \ rewritten : object[n] = "valid"
    PROVE  UploadInv'
<1>1. call'[q] = Nil
  BY DEF UploadInv, UploadTypeOK, Ended
<1>2. CallGood(q)'
  BY <1>1 DEF CallGood, UploadGood, OnRowGood, Is
<1>3. Nil \in Calls /\ access' \in [Users -> Grants]
  BY DEF UploadInv, UploadTypeOK, Calls
<1>4. call' = [call EXCEPT ![q] = Nil] /\ held' = [held EXCEPT ![q] = {}]
  BY DEF Ended
<1>5. {} \in SUBSET Rights
  OBVIOUS
<1> QED
  BY <1>2, <1>3, <1>4, <1>5, CallStep

(***************************************************************************)
(* Steps of a request.                                                     *)
(***************************************************************************)
LEMMA LinkedKept ==
    ASSUME UploadInv
    PROVE  /\ linked \subseteq Nonces /\ \A n \in linked : Registered(n)
           /\ \A n \in linked \ rewritten : object[n] = "valid"
BY DEF UploadInv, UploadTypeOK, FromIssued, RegisteredObjectChecked

LEMMA AuthenticateStep ==
    ASSUME UploadInv, NEW q \in Slots, NEW u \in Users, Authenticate(q, u)
    PROVE  UploadInv'
<1>1. PICK c : c = [step |-> "auth", by |-> u, allowed |-> access[u]]
  OBVIOUS
<1>2. access[u] \in SUBSET Rights
  BY AccessIsRights DEF UploadInv
<1>3. c \in Calls
  BY <1>1, <1>2 DEF Calls, Principal
<1>4. call' = [call EXCEPT ![q] = c] /\ held' = [held EXCEPT ![q] = access[u]]
  BY <1>1 DEF Authenticate
<1>5. call'[q] = c /\ held'[q] = access[u]
  BY <1>4 DEF UploadInv, UploadTypeOK
<1>6. CallGood(q)'
  BY <1>1, <1>5 DEF CallGood, UploadGood, OnRowGood, Is
<1>7. access' \in [Users -> Grants]
  BY DEF UploadInv, UploadTypeOK, Authenticate
<1> QED
  BY <1>1, <1>2, <1>3, <1>4, <1>6, <1>7, CallStep, LinkedKept DEF Authenticate, uploadHistories

(* A request goes on with an upload.                                       *)
LEMMA GoToStep ==
    ASSUME UploadInv, NEW q \in Slots, NEW n \in Nonces, NEW r \in Resources,
           NEW step \in {"signed", "found", "checked"},
           call[q] # Nil, call[q].by \in Users, GoTo(q, step, n, r),
           UNCHANGED <<access, hosts, token, storage, attachments, linked, uploadHistories>>,
           <<r, "write">> \in held[q],
           step = "signed" => n \notin issued /\ \A p \in Slots : Is(p, "signed") => call[p].nonce # n,
           step # "signed" => n \in issued,
           step = "checked" => object[n] = "valid"
    PROVE  UploadInv'
<1>1. PICK c : c = [step |-> step, by |-> call[q].by, nonce |-> n, of |-> r]
  OBVIOUS
<1>2. c \in Calls
  BY <1>1 DEF Calls, Upload
<1>3. call' = [call EXCEPT ![q] = c]
  BY <1>1 DEF GoTo
<1>4. held' = [held EXCEPT ![q] = held[q]] /\ held[q] \in SUBSET Rights
  BY DEF UploadInv, UploadTypeOK, uploadHistories
<1>5. call'[q] = c /\ held'[q] = held[q]
  BY <1>3 DEF UploadInv, UploadTypeOK, uploadHistories
<1>6. UploadGood(q)'
  BY <1>1, <1>5 DEF UploadGood, Is, uploadHistories, storage
<1>7. OnRowGood(q)'
  BY <1>1, <1>5 DEF OnRowGood, Is
<1>8. access' \in [Users -> Grants]
  BY DEF UploadInv, UploadTypeOK
<1> QED
  BY <1>1, <1>2, <1>3, <1>4, <1>6, <1>7, <1>8, CallStep, LinkedKept DEF CallGood, uploadHistories

LEMMA SignStep ==
    ASSUME UploadInv, NEW q \in Slots, NEW n \in Nonces, NEW r \in Resources, SignUploadURL(q, n, r)
    PROVE  UploadInv'
<1>1. call[q] # Nil /\ call[q].by \in Users
  BY CallKinds DEF UploadInv, SignUploadURL, Is, Principal
<1>2. <<r, "write">> \in held[q]
  BY DEF UploadInv, SignUploadURL, CallGood, OnRowGood
<1> QED
  BY <1>1, <1>2, GoToStep DEF SignUploadURL

LEMMA FindStep ==
    ASSUME UploadInv, NEW q \in Slots, NEW n \in Nonces, NEW r \in Resources, FindUploadToken(q, n, r)
    PROVE  UploadInv'
<1>1. call[q] # Nil /\ call[q].by \in Users
  BY CallKinds DEF UploadInv, FindUploadToken, Is, Principal
<1>2. <<r, "write">> \in held[q]
  BY DEF UploadInv, FindUploadToken, EnsureResourceAccess, CallGood, OnRowGood
<1>3. token[n] \in Token
  BY <1>1 DEF FindUploadToken, Token
<1>4. n \in issued
  BY <1>3, NilAssumption DEF UploadInv, FromIssued
<1> QED
  BY <1>1, <1>2, <1>4, GoToStep DEF FindUploadToken

LEMMA CheckStep ==
    ASSUME UploadInv, NEW q \in Slots, GetObjectMetadata(q)
    PROVE  UploadInv'
<1>1. call[q] # Nil /\ call[q] \in Upload
  BY CallKinds DEF UploadInv, GetObjectMetadata, Is
<1>2. <<call[q].of, "write">> \in held[q] /\ call[q].nonce \in issued
  BY DEF UploadInv, GetObjectMetadata, CallGood, UploadGood
<1> QED
  BY <1>1, <1>2, GoToStep DEF GetObjectMetadata, ValidateObject, Upload

(* A request goes on with a row.                                           *)
LEMMA RowStep ==
    ASSUME UploadInv, NEW q \in Slots, NEW i \in DOMAIN attachments, NEW c \in OnRow,
           call' = [call EXCEPT ![q] = c], c.row = i,
           UNCHANGED <<access, hosts, token, storage, attachments, linked, uploadHistories>>,
           c.step = "delete" => <<attachments[i].of, "write">> \in held[q],
           c.step = "active" => <<attachments[i].of, "read">> \in held[q],
           c.step = "download" => c.allowed \subseteq held[q]
    PROVE  UploadInv'
<1>1. c \in Calls /\ c.step \in {"delete", "active", "download"}
  BY DEF Calls, OnRow
<1>2. held' = [held EXCEPT ![q] = held[q]] /\ held[q] \in SUBSET Rights
  BY DEF UploadInv, UploadTypeOK, uploadHistories
<1>3. call'[q] = c /\ held'[q] = held[q]
  BY DEF UploadInv, UploadTypeOK, uploadHistories
<1>4. UploadGood(q)'
  BY <1>1, <1>3 DEF UploadGood, Is
<1>5. OnRowGood(q)'
  BY <1>1, <1>3 DEF OnRowGood, Is
<1>6. access' \in [Users -> Grants]
  BY DEF UploadInv, UploadTypeOK
<1> QED
  BY <1>1, <1>2, <1>4, <1>5, <1>6, CallStep, LinkedKept DEF CallGood, uploadHistories

LEMMA RowSteps ==
    ASSUME UploadInv, NEW q \in Slots, NEW i \in DOMAIN attachments,
           ResolveAttachment(q, i) \/ ResolveDownload(q, i)
    PROVE  UploadInv'
<1>1. i \in Nat
  BY DEF UploadInv, UploadTypeOK
<1>2. Is(q, "auth") /\ call[q] \in Principal
  BY CallKinds DEF UploadInv, ResolveAttachment, ResolveDownload
<1>3. call[q].allowed \subseteq held[q]
  BY <1>2 DEF UploadInv, CallGood, OnRowGood
<1>4. CASE ResolveAttachment(q, i)
  <2>1. PICK c : c = [step |-> "delete", by |-> call[q].by, row |-> i]
    OBVIOUS
  <2>2. c \in OnRow
    BY <1>1, <1>2, <2>1 DEF OnRow, Principal
  <2>3. <<attachments[i].of, "write">> \in held[q]
    BY <1>3, <1>4 DEF ResolveAttachment, FindHost, EnsureResourceAccess
  <2> QED
    BY <1>4, <2>1, <2>2, <2>3, RowStep DEF ResolveAttachment, GoToRow
<1>5. CASE ResolveDownload(q, i)
  <2>1. PICK c : c = [step |-> "download", by |-> call[q].by, row |-> i, allowed |-> call[q].allowed]
    OBVIOUS
  <2>2. c \in OnRow
    BY <1>1, <1>2, <2>1 DEF OnRow, Principal
  <2> QED
    BY <1>3, <1>5, <2>1, <2>2, RowStep DEF ResolveDownload
<1> QED
  BY <1>4, <1>5

LEMMA FindActiveStep ==
    ASSUME UploadInv, NEW q \in Slots, FindActive(q)
    PROVE  UploadInv'
<1>1. Is(q, "download")
  BY DEF FindActive
<1>2. PICK i \in DOMAIN attachments : i = call[q].row
  BY <1>1 DEF UploadInv, CallGood, OnRowGood
<1>3. i \in Nat /\ call[q].by \in Users
  BY <1>1, <1>2, CallKinds DEF UploadInv
<1>4. PICK c : c = [step |-> "active", by |-> call[q].by, row |-> i]
  OBVIOUS
<1>5. c \in OnRow
  BY <1>3, <1>4 DEF OnRow
<1>6. <<attachments[i].of, "read">> \in held[q]
  BY <1>1, <1>2 DEF UploadInv, CallGood, OnRowGood, FindActive, FindHost, EnsureResourceAccess
<1> QED
  BY <1>2, <1>4, <1>5, <1>6, RowStep DEF FindActive, GoToRow

(* What a download URL is signed for is the object of a row.               *)
LEMMA DownloadStep ==
    ASSUME UploadInv, NEW q \in Slots, CreateDownloadURL(q)
    PROVE  UploadInv'
<1>1. PICK i \in DOMAIN attachments : i = call[q].row
  BY DEF UploadInv, CallGood, OnRowGood, CreateDownloadURL
<1>2. attachments[i].nonce \in Nonces
  BY RowType DEF UploadInv, Attachment
<1>3. linked' = linked \cup {attachments[i].nonce}
  BY <1>1 DEF CreateDownloadURL
<1>4. Registered(attachments[i].nonce)
  BY DEF Registered
<1>5. linked' \subseteq Nonces /\ \A n \in linked' : Registered(n)
  BY <1>2, <1>3, <1>4, LinkedKept
<1>6. \A n \in linked' \ rewritten : object[n] = "valid"
  BY <1>5 DEF UploadInv, RegisteredObjectChecked
<1> QED
  BY <1>5, <1>6, EndStep DEF CreateDownloadURL

LEMMA AbandonStep ==
    ASSUME UploadInv, NEW q \in Slots, Abandon(q)
    PROVE  UploadInv'
BY EndStep, LinkedKept DEF Abandon

(* The nonce of the token is issued only now: no other request has it.     *)
LEMMA CreateTokenStep ==
    ASSUME UploadInv, NEW q \in Slots, CreateUploadToken(q)
    PROVE  UploadInv'
<1>1. PICK n : n = call[q].nonce
  OBVIOUS
<1>2. Is(q, "signed") /\ call[q] \in Upload /\ n \in Nonces /\ n \notin issued
  BY <1>1, CallKinds DEF UploadInv, CreateUploadToken, CallGood, UploadGood, Upload
<1>3. PICK t : t = NewToken(q)
  OBVIOUS
<1>4. t \in Token /\ t # Nil
  BY <1>2, <1>3, NilAssumption DEF NewToken, Token, Upload
<1>5. /\ token' = [token EXCEPT ![n] = t] /\ issued' = issued \cup {n}
      /\ url' = url \cup {n} \/ url' = url
      /\ call' = [call EXCEPT ![q] = Nil] /\ held' = [held EXCEPT ![q] = {}]
      /\ UNCHANGED <<access, hosts, expired, object, attachments, linked, rewritten>>
  BY <1>1, <1>3 DEF CreateUploadToken, Ended
<1>6. UploadTypeOK'
  BY <1>2, <1>4, <1>5 DEF UploadInv, UploadTypeOK
<1>7. /\ token'[n] = t /\ call'[q] = Nil
      /\ \A m \in Nonces : m # n => token'[m] = token[m]
      /\ \A p \in Slots : p # q => call'[p] = call[p] /\ held'[p] = held[p]
  BY <1>2, <1>5 DEF UploadInv, UploadTypeOK
<1>8. ~Registered(n) /\ \A m \in Nonces : Registered(m)' <=> Registered(m)
  BY <1>2, <1>5 DEF UploadInv, FromIssued, Registered
<1>9. TokenSpentOnce'
  BY <1>2, <1>4, <1>5, <1>7, <1>8 DEF UploadInv, UploadTypeOK, TokenSpentOnce
<1>10. RegisteredObjectChecked'
  BY <1>5, <1>8 DEF UploadInv, RegisteredObjectChecked
<1>11. FromIssued'
  BY <1>5, <1>7, <1>8 DEF UploadInv, UploadTypeOK, FromIssued
<1>12. SignedApart'
  BY <1>7 DEF UploadInv, SignedApart, Is
<1>13. ASSUME NEW p \in Slots PROVE CallGood(p)'
  <2>1. CASE p = q
    BY <1>7, <2>1 DEF CallGood, UploadGood, OnRowGood, Is
  <2>2. CASE p # q
    <3>1. call[p] = call'[p] /\ held'[p] = held[p] /\ CallGood(p)
      BY <1>7, <2>2 DEF UploadInv
    <3>2. Is(p, "signed") => call[p].nonce # n
      BY <1>1, <1>2, <2>2 DEF UploadInv, SignedApart
    <3>3. UploadGood(p)'
      BY <1>5, <3>1, <3>2 DEF CallGood, UploadGood, Is
    <3>4. OnRowGood(p)'
      BY <1>5, <3>1 DEF CallGood, OnRowGood, Is
    <3> QED
      BY <3>3, <3>4 DEF CallGood
  <2> QED
    BY <2>1, <2>2
<1> QED
  BY <1>6, <1>9, <1>10, <1>11, <1>12, <1>13 DEF UploadInv

(* The token is there: no row was inserted for it.                         *)
LEMMA RegisterStep ==
    ASSUME UploadInv, NEW q \in Slots, RegisterAttachment(q)
    PROVE  UploadInv'
<1>1. PICK n : n = call[q].nonce
  OBVIOUS
<1>2. Is(q, "checked") /\ call[q] \in Upload /\ n \in issued /\ n \in Nonces
  BY <1>1, CallKinds DEF UploadInv, RegisterAttachment, CallGood, UploadGood, Upload
<1>3. n \notin rewritten => object[n] = "valid"
  BY <1>1, <1>2 DEF UploadInv, CallGood, UploadGood
<1>4. PICK a : a = [nonce |-> n, by |-> call[q].by, of |-> call[q].of, deleted |-> FALSE]
  OBVIOUS
<1>5. a \in Attachment
  BY <1>2, <1>4 DEF Attachment, Upload
<1>6. /\ token[n] # Nil /\ token' = [token EXCEPT ![n] = Nil]
      /\ attachments' = Append(attachments, a)
      /\ call' = [call EXCEPT ![q] = Nil] /\ held' = [held EXCEPT ![q] = {}]
      /\ UNCHANGED <<access, hosts, url, expired, object, linked, issued, rewritten>>
  BY <1>1, <1>4 DEF RegisterAttachment, TokenDeleted, Ended, storage
<1>7. UploadTypeOK'
  BY <1>2, <1>5, <1>6 DEF UploadInv, UploadTypeOK
<1>8. /\ token'[n] = Nil /\ call'[q] = Nil
      /\ \A m \in Nonces : m # n => token'[m] = token[m]
      /\ \A p \in Slots : p # q => call'[p] = call[p] /\ held'[p] = held[p]
  BY <1>2, <1>6 DEF UploadInv, UploadTypeOK
<1>9. /\ DOMAIN attachments' = DOMAIN attachments \cup {Len(attachments) + 1}
      /\ Len(attachments) + 1 \notin DOMAIN attachments
      /\ attachments'[Len(attachments) + 1] = a
      /\ \A i \in DOMAIN attachments : attachments'[i] = attachments[i]
  BY <1>5, <1>6 DEF UploadInv, UploadTypeOK
<1>10. ~Registered(n) /\ \A m : Registered(m)' <=> Registered(m) \/ m = n
  BY <1>2, <1>4, <1>6, <1>9 DEF UploadInv, TokenSpentOnce, Registered
<1>11. TokenSpentOnce'
  <2>1. \A m \in issued' : (token'[m] = Nil) <=> Registered(m)'
    BY <1>2, <1>6, <1>8, <1>10 DEF UploadInv, UploadTypeOK, TokenSpentOnce
  <2>2. \A i \in DOMAIN attachments : attachments[i].nonce # n
    BY <1>10 DEF Registered
  <2>3. \A i, j \in DOMAIN attachments' : attachments'[i].nonce = attachments'[j].nonce => i = j
    BY <1>4, <1>9, <2>2 DEF UploadInv, TokenSpentOnce
  <2> QED
    BY <2>1, <2>3 DEF TokenSpentOnce
<1>12. RegisteredObjectChecked'
  BY <1>3, <1>6, <1>10 DEF UploadInv, RegisteredObjectChecked
<1>13. FromIssued'
  <2>1. \A m \in Nonces : token'[m] # Nil => m \in issued'
    BY <1>6, <1>8 DEF UploadInv, FromIssued
  <2>2. \A i \in DOMAIN attachments' : attachments'[i].nonce \in issued'
    BY <1>2, <1>4, <1>6, <1>9 DEF UploadInv, FromIssued
  <2>3. \A m \in linked' : Registered(m)'
    BY <1>6, <1>10 DEF UploadInv, FromIssued
  <2> QED
    BY <2>1, <2>2, <2>3 DEF FromIssued
<1>14. SignedApart'
  BY <1>8 DEF UploadInv, SignedApart, Is
<1>15. ASSUME NEW p \in Slots PROVE CallGood(p)'
  <2>1. CASE p = q
    BY <1>8, <2>1 DEF CallGood, UploadGood, OnRowGood, Is
  <2>2. CASE p # q
    <3>1. call[p] = call'[p] /\ held'[p] = held[p] /\ CallGood(p)
      BY <1>8, <2>2 DEF UploadInv
    <3>2. UploadGood(p)'
      BY <1>6, <3>1 DEF CallGood, UploadGood, Is
    <3>3. OnRowGood(p)'
      BY <1>9, <3>1 DEF CallGood, OnRowGood, Is
    <3> QED
      BY <3>2, <3>3 DEF CallGood
  <2> QED
    BY <2>1, <2>2
<1> QED
  BY <1>7, <1>11, <1>12, <1>13, <1>14, <1>15 DEF UploadInv

(* A deleted row keeps its nonce and its resource.                         *)
LEMMA SoftDeleteStep ==
    ASSUME UploadInv, NEW q \in Slots, SoftDeleteAttachment(q)
    PROVE  UploadInv'
<1>1. PICK k \in DOMAIN attachments : k = call[q].row
  BY DEF UploadInv, CallGood, OnRowGood, SoftDeleteAttachment
<1>2. PICK a : a = [attachments[k] EXCEPT !.deleted = TRUE]
  OBVIOUS
<1>3. a \in Attachment /\ a.nonce = attachments[k].nonce /\ a.of = attachments[k].of
  BY <1>2, RowType DEF UploadInv, Attachment
<1>4. /\ attachments' = [attachments EXCEPT ![k] = a]
      /\ call' = [call EXCEPT ![q] = Nil] /\ held' = [held EXCEPT ![q] = {}]
      /\ UNCHANGED <<access, hosts, token, url, expired, object, linked, issued, rewritten>>
  BY <1>1, <1>2 DEF SoftDeleteAttachment, Ended, storage
<1>5. UploadTypeOK'
  BY <1>3, <1>4 DEF UploadInv, UploadTypeOK
<1>6. /\ DOMAIN attachments' = DOMAIN attachments
      /\ \A i \in DOMAIN attachments :
            attachments'[i].nonce = attachments[i].nonce /\ attachments'[i].of = attachments[i].of
  BY <1>3, <1>4 DEF UploadInv, UploadTypeOK
<1>7. \A m : Registered(m)' <=> Registered(m)
  BY <1>6 DEF Registered
<1>8. call'[q] = Nil /\ \A p \in Slots : p # q => call'[p] = call[p] /\ held'[p] = held[p]
  BY <1>4 DEF UploadInv, UploadTypeOK
<1>9. TokenSpentOnce' /\ RegisteredObjectChecked'
  BY <1>4, <1>6, <1>7 DEF UploadInv, TokenSpentOnce, RegisteredObjectChecked
<1>10. FromIssued'
  BY <1>4, <1>6, <1>7 DEF UploadInv, FromIssued
<1>11. SignedApart'
  BY <1>8 DEF UploadInv, SignedApart, Is
<1>12. ASSUME NEW p \in Slots PROVE CallGood(p)'
  <2>1. CASE p = q
    BY <1>8, <2>1 DEF CallGood, UploadGood, OnRowGood, Is
  <2>2. CASE p # q
    <3>1. call[p] = call'[p] /\ held'[p] = held[p] /\ CallGood(p)
      BY <1>8, <2>2 DEF UploadInv
    <3>2. UploadGood(p)'
      BY <1>4, <3>1 DEF CallGood, UploadGood, Is
    <3>3. OnRowGood(p)'
      BY <1>6, <3>1 DEF CallGood, OnRowGood, Is
    <3> QED
      BY <3>2, <3>3 DEF CallGood
  <2> QED
    BY <2>1, <2>2
<1> QED
  BY <1>5, <1>9, <1>10, <1>11, <1>12 DEF UploadInv

(***************************************************************************)
(* Steps of the clients, the clock and the other components.               *)
(***************************************************************************)

(* What is put over a checked or registered object is remembered.          *)
LEMMA PutStep ==
    ASSUME UploadInv, NEW n \in Nonces, NEW content \in {"valid", "invalid"}, PutObject(n, content)
    PROVE  UploadInv'
<1> DEFINE Checked == \E q \in Slots : Is(q, "checked") /\ call[q].nonce = n
<1>1. /\ n \in url /\ object' = [object EXCEPT ![n] = content]
      /\ UNCHANGED <<access, hosts, token, url, expired, attachments, linked, call, issued, held>>
  BY DEF PutObject
<1>2. rewritten' = rewritten \cup {n} \/ (rewritten' = rewritten /\ ~Checked /\ ~Registered(n))
  BY DEF PutObject, Registered
<1>3. UploadTypeOK'
  BY <1>1, <1>2 DEF UploadInv, UploadTypeOK
<1>4. \A m \in Nonces : m # n => object'[m] = object[m]
  BY <1>1 DEF UploadInv, UploadTypeOK
<1>5. TokenSpentOnce' /\ FromIssued' /\ SignedApart'
  BY <1>1 DEF UploadInv, TokenSpentOnce, FromIssued, SignedApart, Registered, Is
<1>6. RegisteredObjectChecked'
  <2>1. \A m \in Nonces : Registered(m)' <=> Registered(m)
    BY <1>1 DEF Registered
  <2>2. \A m \in linked : Registered(m)
    BY LinkedKept
  <2> QED
    BY <1>1, <1>2, <1>4, <2>1, <2>2 DEF UploadInv, RegisteredObjectChecked
<1>7. ASSUME NEW p \in Slots PROVE CallGood(p)'
  <2>1. CallGood(p) /\ (Is(p, "checked") => call[p].nonce \in Nonces)
    BY CallKinds DEF UploadInv, Upload
  <2>2. UploadGood(p)'
    BY <1>1, <1>2, <1>4, <2>1 DEF CallGood, UploadGood, Is
  <2>3. OnRowGood(p)'
    BY <1>1, <2>1 DEF CallGood, OnRowGood, Is
  <2> QED
    BY <2>2, <2>3 DEF CallGood
<1> QED
  BY <1>3, <1>5, <1>6, <1>7 DEF UploadInv

LEMMA ExpireStep ==
    ASSUME UploadInv, NEW n \in Nonces, Expire(n)
    PROVE  UploadInv'
<1>1. /\ n \in issued /\ expired' = expired \cup {n}
      /\ UNCHANGED <<access, hosts, token, url, object, attachments, linked, call, issued, rewritten, held>>
  BY DEF Expire, uploadHistories
<1>2. UploadTypeOK'
  BY <1>1 DEF UploadInv, UploadTypeOK
<1>3. TokenSpentOnce' /\ RegisteredObjectChecked' /\ FromIssued' /\ SignedApart'
  BY <1>1 DEF UploadInv, TokenSpentOnce, RegisteredObjectChecked, FromIssued, SignedApart, Registered, Is
<1>4. \A p \in Slots : CallGood(p)'
  BY <1>1 DEF UploadInv, CallGood, UploadGood, OnRowGood, Is
<1> QED
  BY <1>2, <1>3, <1>4 DEF UploadInv

(* What a user has had only grows.                                         *)
LEMMA EditAccessStep ==
    ASSUME UploadInv, NEW u \in Users, NEW rights \in Grants, EditAccess(u, rights)
    PROVE  UploadInv'
<1>1. /\ access' = [access EXCEPT ![u] = rights]
      /\ held' = [q \in Slots |-> IF call[q] # Nil /\ call[q].by = u
                                 THEN held[q] \cup rights ELSE held[q]]
      /\ UNCHANGED <<hosts, token, url, expired, object, attachments, linked, call, issued, rewritten>>
  BY DEF EditAccess, storage
<1>2. rights \subseteq Rights
  BY DEF Grants
<1>3. UploadTypeOK'
  BY <1>1, <1>2 DEF UploadInv, UploadTypeOK
<1>4. TokenSpentOnce' /\ RegisteredObjectChecked' /\ FromIssued' /\ SignedApart'
  BY <1>1 DEF UploadInv, TokenSpentOnce, RegisteredObjectChecked, FromIssued, SignedApart, Registered, Is
<1>5. ASSUME NEW p \in Slots PROVE CallGood(p)'
  <2>1. CallGood(p) /\ held[p] \subseteq held'[p]
    BY <1>1 DEF UploadInv, UploadTypeOK
  <2>2. UploadGood(p)'
    BY <1>1, <2>1 DEF CallGood, UploadGood, Is
  <2>3. OnRowGood(p)'
    BY <1>1, <2>1 DEF CallGood, OnRowGood, Is
  <2> QED
    BY <2>2, <2>3 DEF CallGood
<1> QED
  BY <1>3, <1>4, <1>5 DEF UploadInv

LEMMA DeleteResourceStep ==
    ASSUME UploadInv, NEW r \in Resources, DeleteResource(r)
    PROVE  UploadInv'
<1>1. /\ hosts' = hosts \ {r}
      /\ UNCHANGED <<access, token, url, expired, object, attachments, linked, call, issued, rewritten, held>>
  BY DEF DeleteResource, storage, uploadHistories
<1>2. UploadTypeOK'
  BY <1>1 DEF UploadInv, UploadTypeOK
<1>3. TokenSpentOnce' /\ RegisteredObjectChecked' /\ FromIssued' /\ SignedApart'
  BY <1>1 DEF UploadInv, TokenSpentOnce, RegisteredObjectChecked, FromIssued, SignedApart, Registered, Is
<1>4. \A p \in Slots : CallGood(p)'
  BY <1>1 DEF UploadInv, CallGood, UploadGood, OnRowGood, Is
<1> QED
  BY <1>2, <1>3, <1>4 DEF UploadInv

-----------------------------------------------------------------------------
LEMMA InitInvariant == UploadInit => UploadInv
<1> SUFFICES ASSUME UploadInit PROVE UploadInv
  OBVIOUS
<1>1. UploadTypeOK /\ \A q \in Slots : call[q] = Nil
  BY DEF UploadInit, UploadTypeOK
<1>2. TokenSpentOnce /\ RegisteredObjectChecked /\ FromIssued
  BY DEF UploadInit, TokenSpentOnce, RegisteredObjectChecked, FromIssued, Registered
<1> QED
  BY <1>1, <1>2 DEF UploadInv, SignedApart, CallGood, UploadGood, OnRowGood, Is

LEMMA ServeStep ==
    ASSUME UploadInv, NEW q \in Slots, Serve(q)
    PROVE  UploadInv'
<1>1. CASE \E u \in Users : Authenticate(q, u)
  BY <1>1, AuthenticateStep
<1>2. CASE \E n \in Nonces, r \in Resources : SignUploadURL(q, n, r) \/ FindUploadToken(q, n, r)
  BY <1>2, SignStep, FindStep
<1>3. CASE CreateUploadToken(q) \/ GetObjectMetadata(q) \/ RegisterAttachment(q)
  BY <1>3, CreateTokenStep, CheckStep, RegisterStep
<1>4. CASE \E i \in DOMAIN attachments : ResolveAttachment(q, i) \/ ResolveDownload(q, i)
  BY <1>4, RowSteps
<1>5. CASE SoftDeleteAttachment(q) \/ FindActive(q) \/ CreateDownloadURL(q) \/ Abandon(q)
  BY <1>5, SoftDeleteStep, FindActiveStep, DownloadStep, AbandonStep
<1> QED
  BY <1>1, <1>2, <1>3, <1>4, <1>5 DEF Serve

LEMMA NextInvariant == UploadInv /\ [UploadNext]_uploadVars => UploadInv'
<1> SUFFICES ASSUME UploadInv, [UploadNext]_uploadVars PROVE UploadInv'
  OBVIOUS
<1>1. CASE \E q \in Slots : Serve(q)
  BY <1>1, ServeStep
<1>2. CASE \E n \in Nonces : Expire(n) \/ \E content \in {"valid", "invalid"} : PutObject(n, content)
  BY <1>2, ExpireStep, PutStep
<1>3. CASE \E u \in Users, rights \in Grants : EditAccess(u, rights)
  BY <1>3, EditAccessStep
<1>4. CASE \E r \in Resources : DeleteResource(r)
  BY <1>4, DeleteResourceStep
<1>5. CASE UNCHANGED uploadVars
  <2>1. UploadTypeOK'
    BY <1>5 DEF UploadInv, UploadTypeOK, uploadVars, storage, uploadHistories
  <2>2. TokenSpentOnce' /\ RegisteredObjectChecked' /\ FromIssued' /\ SignedApart'
    BY <1>5 DEF UploadInv, TokenSpentOnce, RegisteredObjectChecked, FromIssued, SignedApart, Registered,
                Is, uploadVars, storage, uploadHistories
  <2>3. \A p \in Slots : CallGood(p)'
    BY <1>5 DEF UploadInv, CallGood, UploadGood, OnRowGood, Is, uploadVars, storage, uploadHistories
  <2> QED
    BY <2>1, <2>2, <2>3 DEF UploadInv
<1> QED
  BY <1>1, <1>2, <1>3, <1>4, <1>5 DEF UploadNext

LEMMA Invariant == UploadSpec => []UploadInv
BY InitInvariant, NextInvariant, PTL DEF UploadSpec

(* The tables, the storage and the requests stay well-formed, whatever     *)
(* requests register, delete and download at the same time.                *)
THEOREM UploadTypes == UploadSpec => []UploadTypeOK
<1>1. UploadInv => UploadTypeOK
  BY DEF UploadInv
<1> QED
  BY <1>1, Invariant, PTL

(* However many requests register one upload, its token becomes exactly    *)
(* one attachment, and none spends it for nothing.                         *)
THEOREM SpentOnce == UploadSpec => []TokenSpentOnce
<1>1. UploadInv => TokenSpentOnce
  BY DEF UploadInv
<1> QED
  BY <1>1, Invariant, PTL

(* The object of an attachment or behind a download URL is the one that    *)
(* was checked, unless its client put another one after the check.         *)
THEOREM ObjectsChecked == UploadSpec => []RegisteredObjectChecked
<1>1. UploadInv => RegisteredObjectChecked
  BY DEF UploadInv
<1> QED
  BY <1>1, Invariant, PTL

(* No step registers, deletes or hands out a download URL without a right  *)
(* that its user has had since the request came in.                        *)
THEOREM WithdrawnShutOut == UploadSpec => WithdrawnGetsNothing
<1> DEFINE Covered(q) ==
        /\ RegisterAttachment(q) => <<call[q].of, "write">> \in held[q]
        /\ SoftDeleteAttachment(q) => <<attachments[call[q].row].of, "write">> \in held[q]
        /\ CreateDownloadURL(q) => <<attachments[call[q].row].of, "read">> \in held[q]
<1>1. ASSUME UploadInv, NEW q \in Slots PROVE Covered(q)
  BY <1>1 DEF UploadInv, CallGood, UploadGood, OnRowGood, RegisterAttachment, SoftDeleteAttachment,
              CreateDownloadURL
<1>2. UploadInv /\ [UploadNext]_uploadVars => [\A q \in Slots : Covered(q)]_uploadVars
  BY <1>1
<1> QED
  BY <1>2, Invariant, PTL DEF UploadSpec, WithdrawnGetsNothing
=============================================================================
