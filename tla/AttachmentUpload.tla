-------------------------- MODULE AttachmentUpload --------------------------
(***************************************************************************)
(* Attachments: a client asks for an upload URL, puts its object into the  *)
(* storage itself, and registers it; later it is listed, downloaded with a *)
(* URL of its own, and deleted.                                            *)
(*                                                                         *)
(* The URL and a token expire together.  Registering reads the token, then *)
(* the object's metadata, and only then opens the transaction that deletes *)
(* the token and inserts the attachment; nothing keeps the object, the     *)
(* user's access or the resource as they were.  call[q] is the request     *)
(* that slot q is serving, with the access its user had when it came in.   *)
(***************************************************************************)
EXTENDS Naturals, Sequences

CONSTANTS
    Users,
    Resources,   \* properties, rooms, tenants, leases, journals, repairs, bills
    Nonces,      \* nonces of upload tokens (a bound)
    Slots,        \* slots of concurrent requests
    Nil

VARIABLES
    access,      \* access[u]: what u's role and assignments let u read and write
    hosts,       \* the resources that are not deleted
    token,       \* token[n]: the row of attachment_upload_tokens
    url,         \* nonces whose upload URL a client holds
    expired,     \* nonces whose token and URL have expired
    object,      \* object[n]: what the storage holds at n's path
    attachments, \* the attachment rows, in the order of their insertion
    linked,      \* nonces whose object a download URL was signed for
    call,
    issued,      \* history: nonces whose token was inserted
    rewritten,   \* history: nonces put again after their object was checked
    held         \* history: held[q]: the rights q's user has had at some time of q

storage == <<url, expired, object>>
uploadHistories == <<issued, rewritten, held>>
uploadVars == <<access, hosts, token, storage, attachments, linked, call, uploadHistories>>

Rights == Resources \X {"read", "write"}

(* Owners read some kinds of resources; who may write may read.            *)
Grants == {g \in SUBSET Rights : \A r \in Resources : <<r, "write">> \in g => <<r, "read">> \in g}

Token == [to : Users, for : Resources]
Attachment == [nonce : Nonces, by : Users, of : Resources, deleted : BOOLEAN]

Principal == [step : {"auth"}, by : Users, allowed : SUBSET Rights]
Upload == [step : {"signed", "found", "checked"}, by : Users, nonce : Nonces, of : Resources]
(* What is done to a row: deleted, or downloaded.                          *)
OnRow == [step : {"delete", "active"}, by : Users, row : Nat]
          \cup [step : {"download"}, by : Users, row : Nat, allowed : SUBSET Rights]

ASSUME NilAssumption == Nil \notin Token \cup Principal \cup Upload \cup OnRow

UploadTypeOK ==
    /\ access \in [Users -> Grants]
    /\ hosts \subseteq Resources
    /\ token \in [Nonces -> Token \cup {Nil}]
    /\ url \subseteq issued /\ issued \subseteq Nonces /\ expired \subseteq issued
    /\ object \in [Nonces -> {"missing", "valid", "invalid"}]
    /\ attachments \in Seq(Attachment)
    /\ call \in [Slots -> Principal \cup Upload \cup OnRow \cup {Nil}]
    /\ rewritten \subseteq url
    /\ linked \subseteq Nonces
    /\ held \in [Slots -> SUBSET Rights]

UploadInit ==
    /\ access \in [Users -> Grants]
    /\ hosts = Resources
    /\ token = [n \in Nonces |-> Nil]
    /\ url = {} /\ expired = {} /\ issued = {} /\ rewritten = {}
    /\ object = [n \in Nonces |-> "missing"]
    /\ attachments = <<>> /\ linked = {}
    /\ call = [q \in Slots |-> Nil]
    /\ held = [q \in Slots |-> {}]

Ended(q) == call' = [call EXCEPT ![q] = Nil] /\ held' = [held EXCEPT ![q] = {}]

Is(q, step) == call[q] # Nil /\ call[q].step = step

(* The middleware reads the user's row.                                    *)
Authenticate(q, u) ==
    /\ call[q] = Nil
    /\ call' = [call EXCEPT ![q] = [step |-> "auth", by |-> u, allowed |-> access[u]]]
    /\ held' = [held EXCEPT ![q] = access[u]]
    /\ UNCHANGED <<access, hosts, token, storage, attachments, linked, issued, rewritten>>

(* A request is refused at a check, fails, or dies with its process.       *)
Abandon(q) ==
    /\ call[q] # Nil
    /\ Ended(q)
    /\ UNCHANGED <<access, hosts, token, storage, attachments, linked, issued, rewritten>>

GoTo(q, step, n, r) ==
    call' = [call EXCEPT ![q] = [step |-> step, by |-> call[q].by, nonce |-> n, of |-> r]]

(* Mutation: only the issuing of a token asks for access.                  *)
AssumeAccess(q, r, right) == r \in hosts

(* The resource's property is looked up, which finds no deleted resource.  *)
EnsureResourceAccess(q, r, right) == r \in hosts /\ <<r, right>> \in call[q].allowed

-----------------------------------------------------------------------------
(* Asking for an upload URL.                                               *)

SignUploadURL(q, n, r) ==
    /\ Is(q, "auth") /\ r \in hosts /\ <<r, "write">> \in call[q].allowed
    /\ n \notin issued /\ \A p \in Slots : Is(p, "signed") => call[p].nonce # n
    /\ GoTo(q, "signed", n, r)
    /\ UNCHANGED <<access, hosts, token, storage, attachments, linked, uploadHistories>>

NewToken(q) == [to |-> call[q].by, for |-> call[q].of]

(* The client gets the URL only if the answer to its request arrives.      *)
CreateUploadToken(q) ==
    /\ Is(q, "signed")
    /\ LET n == call[q].nonce
       IN  /\ token' = [token EXCEPT ![n] = NewToken(q)]
           /\ issued' = issued \cup {n}
           /\ url' = url \cup {n} \/ UNCHANGED url
    /\ Ended(q)
    /\ UNCHANGED <<access, hosts, expired, object, attachments, linked, rewritten>>

-----------------------------------------------------------------------------
(* The client and the storage: any number of puts until the URL expires.   *)

PutObject(n, content) ==
    /\ n \in url \ expired
    /\ object' = [object EXCEPT ![n] = content]
    /\ rewritten' =
           IF \/ \E q \in Slots : Is(q, "checked") /\ call[q].nonce = n
              \/ \E i \in DOMAIN attachments : attachments[i].nonce = n
           THEN rewritten \cup {n} ELSE rewritten
    /\ UNCHANGED <<access, hosts, token, url, expired, attachments, linked, call, issued, held>>

Expire(n) ==
    /\ n \in issued \ expired
    /\ expired' = expired \cup {n}
    /\ UNCHANGED <<access, hosts, token, url, object, attachments, linked, call, uploadHistories>>

-----------------------------------------------------------------------------
(* Registering.                                                            *)

FindUploadToken(q, n, r) ==
    /\ Is(q, "auth")
    /\ token[n] = [to |-> call[q].by, for |-> r] /\ n \notin expired
    /\ EnsureResourceAccess(q, r, "write")
    /\ GoTo(q, "found", n, r)
    /\ UNCHANGED <<access, hosts, token, storage, attachments, linked, uploadHistories>>

(* Mutation: what the client said of the object is believed.               *)
AcceptObject(n) == object[n] # "missing"
ValidateObject(n) == object[n] = "valid"

GetObjectMetadata(q) ==
    /\ Is(q, "found") /\ ValidateObject(call[q].nonce)
    /\ GoTo(q, "checked", call[q].nonce, call[q].of)
    /\ UNCHANGED <<access, hosts, token, storage, attachments, linked, uploadHistories>>

(* Mutation: the token may be gone when it is deleted.                     *)
TokenDeletedAnyway(n) == TRUE
TokenDeleted(n) == token[n] # Nil

(* The transaction; without the token it is rolled back.                   *)
RegisterAttachment(q) ==
    /\ Is(q, "checked") /\ TokenDeleted(call[q].nonce)
    /\ token' = [token EXCEPT ![call[q].nonce] = Nil]
    /\ attachments' = Append(attachments,
           [nonce |-> call[q].nonce, by |-> call[q].by, of |-> call[q].of, deleted |-> FALSE])
    /\ Ended(q)
    /\ UNCHANGED <<access, hosts, storage, linked, issued, rewritten>>

-----------------------------------------------------------------------------
(* Deleting and downloading: the router resolves the resource of the row   *)
(* and asks for access to it.                                              *)

GoToRow(q, step, i) ==
    call' = [call EXCEPT ![q] = [step |-> step, by |-> call[q].by, row |-> i]]

(* A host that is deleted takes its attachments with it.                   *)
FindHost(q, i, right) ==
    ~attachments[i].deleted /\ EnsureResourceAccess(q, attachments[i].of, right)

ResolveAttachment(q, i) ==
    /\ Is(q, "auth") /\ FindHost(q, i, "write")
    /\ GoToRow(q, "delete", i)
    /\ UNCHANGED <<access, hosts, token, storage, attachments, linked, uploadHistories>>

SoftDeleteAttachment(q) ==
    /\ Is(q, "delete") /\ ~attachments[call[q].row].deleted
    /\ attachments' = [attachments EXCEPT ![call[q].row].deleted = TRUE]
    /\ Ended(q)
    /\ UNCHANGED <<access, hosts, token, storage, linked, issued, rewritten>>

(* The client has the id from a list of the resource's attachments.        *)
ListByResource(r) == {i \in DOMAIN attachments : attachments[i].of = r /\ ~attachments[i].deleted}

ResolveDownload(q, i) ==
    /\ Is(q, "auth") /\ \E r \in hosts : i \in ListByResource(r)
    /\ FindHost(q, i, "read")
    /\ call' = [call EXCEPT ![q] = [step |-> "download", by |-> call[q].by, row |-> i,
                                    allowed |-> call[q].allowed]]
    /\ UNCHANGED <<access, hosts, token, storage, attachments, linked, uploadHistories>>

(* The row is read again, and its resource checked for the role.           *)
FindActive(q) ==
    /\ Is(q, "download") /\ FindHost(q, call[q].row, "read")
    /\ GoToRow(q, "active", call[q].row)
    /\ UNCHANGED <<access, hosts, token, storage, attachments, linked, uploadHistories>>

(* The URL is signed for an object that is there, whatever it is by now;   *)
(* it stays good until it expires, also if the row is deleted meanwhile.   *)
CreateDownloadURL(q) ==
    /\ Is(q, "active") /\ object[attachments[call[q].row].nonce] # "missing"
    /\ linked' = linked \cup {attachments[call[q].row].nonce}
    /\ Ended(q)
    /\ UNCHANGED <<access, hosts, token, storage, attachments, issued, rewritten>>

-----------------------------------------------------------------------------
(* Other components.                                                       *)

(* An edit of the user's role or assignments commits (UserAccounts).       *)
EditAccess(u, rights) ==
    /\ rights # access[u]
    /\ access' = [access EXCEPT ![u] = rights]
    /\ held' = [q \in Slots |-> IF call[q] # Nil /\ call[q].by = u
                                THEN held[q] \cup rights ELSE held[q]]
    /\ UNCHANGED <<hosts, token, storage, attachments, linked, call, issued, rewritten>>

DeleteResource(r) ==
    /\ r \in hosts
    /\ hosts' = hosts \ {r}
    /\ UNCHANGED <<access, token, storage, attachments, linked, call, uploadHistories>>

-----------------------------------------------------------------------------
Serve(q) ==
    \/ \E u \in Users : Authenticate(q, u)
    \/ \E n \in Nonces, r \in Resources : SignUploadURL(q, n, r) \/ FindUploadToken(q, n, r)
    \/ CreateUploadToken(q) \/ GetObjectMetadata(q) \/ RegisterAttachment(q)
    \/ \E i \in DOMAIN attachments : ResolveAttachment(q, i) \/ ResolveDownload(q, i)
    \/ SoftDeleteAttachment(q) \/ FindActive(q) \/ CreateDownloadURL(q) \/ Abandon(q)

UploadNext ==
    \/ \E q \in Slots : Serve(q)
    \/ \E n \in Nonces : Expire(n) \/ \E content \in {"valid", "invalid"} : PutObject(n, content)
    \/ \E u \in Users, rights \in Grants : EditAccess(u, rights)
    \/ \E r \in Resources : DeleteResource(r)

UploadSpec == UploadInit /\ [][UploadNext]_uploadVars

-----------------------------------------------------------------------------
(* Properties.                                                             *)

Registered(n) == \E i \in DOMAIN attachments : attachments[i].nonce = n

(* A token is spent exactly by the attachment it was issued for: requests  *)
(* that register one upload at the same time insert one row, and none of   *)
(* them spends the token without inserting it.                             *)
TokenSpentOnce ==
    /\ \A n \in issued : (token[n] = Nil) <=> Registered(n)
    /\ \A i, j \in DOMAIN attachments : attachments[i].nonce = attachments[j].nonce => i = j

(* The object of an attachment has an allowed type and size, and so has    *)
(* whatever a download URL was signed for, unless its client used the      *)
(* upload URL again after the check.                                       *)
RegisteredObjectChecked ==
    \A n \in Nonces \ rewritten : Registered(n) \/ n \in linked => object[n] = "valid"

(* Who has lost the access to a resource registers nothing with a token of *)
(* better days, deletes nothing and gets no download URL: only a request   *)
(* that came in before the change still may.                               *)
WithdrawnGetsNothing ==
    [][\A q \in Slots :
        /\ RegisterAttachment(q) => <<call[q].of, "write">> \in held[q]
        /\ SoftDeleteAttachment(q) => <<attachments[call[q].row].of, "write">> \in held[q]
        /\ CreateDownloadURL(q) => <<attachments[call[q].row].of, "read">> \in held[q]]_uploadVars
=============================================================================
