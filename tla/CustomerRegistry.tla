--------------------------- MODULE CustomerRegistry ---------------------------
(***************************************************************************)
(* The customer table and the avatar files: CustomerService over           *)
(* CustomerModel and UploadHelper, on the local file system.               *)
(*                                                                         *)
(* One action is one SQL statement or one file operation of one request;   *)
(* there is no transaction and no unique index on name or email.  Left     *)
(* out: the cache (CustomerCache), the columns no decision reads, and the  *)
(* SELECT that rebuilds the answer.                                        *)
(***************************************************************************)
EXTENDS Naturals, FiniteSets

CONSTANTS
    Requests,   \* PHP processes: at most this many requests overlap
    Ids,        \* customer ids; an INSERT takes one that was never used
    Names,      \* customer names, as the collation of the column compares them
    Emails,     \* email addresses, which the DTO has lower-cased
    Files,      \* avatar paths that random_bytes may produce
    None,       \* SQL NULL, and a field that holds nothing
    MaxAborts   \* bound: requests that die

ASSUME NoneIsNoData == None \notin Ids \cup Names \cup Emails \cup Files
ASSUME MaxAbortsAssumption == MaxAborts \in Nat
ASSUME RequestsAreFinite == IsFiniteSet(Requests)

VARIABLES
    customer,   \* table customer
    disk,       \* the files under public/uploads/avatars
    owner,      \* the customer each path was produced for; None: not produced yet
    req,        \* what each request remembers between two steps
    contended,  \* history: customers whose avatar requests overlapped or died
    aborts      \* bound: requests that died

vars == <<customer, disk, owner, req, contended, aborts>>

-------------------------------------------------------------------------------

Row == [state  : {"absent", "live", "deleted"},     \* "deleted": deleted_at is set
        name   : Names \cup {None},
        email  : Emails \cup {None},
        avatar : Files \cup {None}]

NoRow == [state |-> "absent", name |-> None, email |-> None, avatar |-> None]

Live(i) == customer[i].state = "live"
WithState(i, state) ==
    [customer EXCEPT ![i] = [state |-> state, name |-> @.name, email |-> @.email, avatar |-> @.avatar]]
WithAvatar(i, f) ==
    [customer EXCEPT ![i] = [state |-> @.state, name |-> @.name, email |-> @.email, avatar |-> f]]

(* Variant, not the code: the customer's own row is not excepted, and every other is. *)
NameTakenBySelf(n, except) == \E i \in Ids : Live(i) /\ customer[i].name = n /\ i = except

(* existsByColumn: another live customer holds the value. *)
NameTaken(n, except) == \E i \in Ids : Live(i) /\ customer[i].name = n /\ i # except
EmailTaken(e, except) == \E i \in Ids : Live(i) /\ customer[i].email = e /\ i # except

PC == {"idle", "name", "email", "write", "softDelete", "store", "point", "clear", "unlink"}

Request == [pc       : PC,
            id       : Ids \cup {None},     \* the customer; None: create
            name     : Names \cup {None},
            email    : Emails \cup {None},
            previous : Files \cup {None},   \* the avatar the row had when it was read
            file     : Files \cup {None}]   \* the avatar just stored

Idle == [pc |-> "idle", id |-> None, name |-> None, email |-> None,
         previous |-> None, file |-> None]

Saving(pc, i, n, e) ==
    [pc |-> pc, id |-> i, name |-> n, email |-> e, previous |-> None, file |-> None]

Changing(pc, i, previous, file) ==
    [pc |-> pc, id |-> i, name |-> None, email |-> None, previous |-> previous, file |-> file]

At(r, pc) == req[r].pc = pc
Become(r, q) == req' = [req EXCEPT ![r] = q]

(* deleteUploadedFile runs only when the row that was read had an avatar. *)
UnlinkPrevious(r) ==
    IF req[r].previous = None THEN Become(r, Idle)
    ELSE Become(r, Changing("unlink", req[r].id, req[r].previous, None))

Free == {i \in Ids : customer[i].state = "absent"}
Creating == {r \in Requests : req[r].pc \in {"name", "email", "write"} /\ req[r].id = None}
Unused == {f \in Files : owner[f] = None}
Storing == {r \in Requests : At(r, "store")}

Init ==
    /\ customer = [i \in Ids |-> NoRow]
    /\ disk = {}
    /\ owner = [f \in Files |-> None]
    /\ req = [r \in Requests |-> Idle]
    /\ contended = {}
    /\ aborts = 0

-------------------------------------------------------------------------------
(* create and update.  A request starts when its body validated: one that    *)
(* does not validate is answered 400 by the controller and touches nothing.  *)

StartCreate(r, n, e) ==
    /\ At(r, "idle")
    /\ Cardinality(Free) > Cardinality(Creating)    \* bound: an id is left
    /\ Become(r, Saving("name", None, n, e))
    /\ UNCHANGED <<customer, disk, owner, contended, aborts>>

StartUpdate(r, i, n, e) ==
    /\ At(r, "idle")
    /\ Live(i)
    /\ Become(r, Saving("name", i, n, e))
    /\ UNCHANGED <<customer, disk, owner, contended, aborts>>

(* assertUnique.  A taken name is refused only after the email was looked up *)
(* too, which can add an error and nothing else.                             *)
CheckName(r) ==
    LET q == req[r] IN
    /\ At(r, "name")
    /\ Become(r, IF NameTaken(q.name, q.id) THEN Idle ELSE Saving("email", q.id, q.name, q.email))
    /\ UNCHANGED <<customer, disk, owner, contended, aborts>>

CheckEmail(r) ==
    LET q == req[r] IN
    /\ At(r, "email")
    /\ Become(r, IF q.email # None /\ EmailTaken(q.email, q.id) THEN Idle
                 ELSE Saving("write", q.id, q.name, q.email))
    /\ UNCHANGED <<customer, disk, owner, contended, aborts>>

Insert(r, i) ==
    /\ At(r, "write")
    /\ req[r].id = None
    /\ customer[i].state = "absent"
    /\ customer' = [customer EXCEPT ![i] =
           [state |-> "live", name |-> req[r].name, email |-> req[r].email, avatar |-> None]]
    /\ Become(r, Idle)
    /\ UNCHANGED <<disk, owner, contended, aborts>>

(* The UPDATE has no deleted_at condition: it also writes to a deleted row. *)
Update(r) ==
    LET i == req[r].id IN
    /\ At(r, "write")
    /\ i # None
    /\ customer' = [customer EXCEPT ![i] =
           [state |-> @.state, name |-> req[r].name, email |-> req[r].email, avatar |-> @.avatar]]
    /\ Become(r, Idle)
    /\ UNCHANGED <<disk, owner, contended, aborts>>

-------------------------------------------------------------------------------
(* delete, uploadAvatar, removeAvatar: read the row, change it, unlink. *)

Handling(i) == {r \in Requests :
                   req[r].pc \in {"softDelete", "store", "point", "clear", "unlink"} /\ req[r].id = i}

ReadAvatar(r, i, pc) ==
    /\ At(r, "idle")
    /\ Live(i)
    /\ Become(r, Changing(pc, i, customer[i].avatar, None))
    /\ contended' = IF Handling(i) = {} THEN contended ELSE contended \cup {i}
    /\ UNCHANGED <<customer, disk, owner, aborts>>

StartDelete(r, i) ==
    ReadAvatar(r, i, "softDelete")

SoftDelete(r) ==
    /\ At(r, "softDelete")
    /\ customer' = WithState(req[r].id, "deleted")
    /\ UnlinkPrevious(r)
    /\ UNCHANGED <<disk, owner, contended, aborts>>

StartUpload(r, i) ==
    /\ Cardinality(Unused) > Cardinality(Storing)  \* bound: a path is left
    /\ ReadAvatar(r, i, "store")

(* Variant, not the code: the old avatar is removed before the row is changed. *)
StoreFileOverPrevious(r, f) ==
    /\ At(r, "store")
    /\ owner[f] = None
    /\ owner' = [owner EXCEPT ![f] = req[r].id]
    /\ disk' = (disk \cup {f}) \ {req[r].previous}
    /\ Become(r, Changing("point", req[r].id, req[r].previous, f))
    /\ UNCHANGED <<customer, contended, aborts>>

(* Variant, not the code: the FALSE of a store that failed is not checked. *)
StoreFileUnchecked(r, f) ==
    /\ At(r, "store")
    /\ Become(r, Changing("point", req[r].id, req[r].previous, FALSE))
    /\ UNCHANGED <<customer, disk, owner, contended, aborts>>

StoreFile(r, f) ==
    /\ At(r, "store")
    /\ owner[f] = None
    /\ owner' = [owner EXCEPT ![f] = req[r].id]
    /\ disk' = disk \cup {f}
    /\ Become(r, Changing("point", req[r].id, req[r].previous, f))
    /\ UNCHANGED <<customer, contended, aborts>>

(* assertAvatar refuses the upload, or store returned FALSE: nothing changed. *)
RefuseAvatar(r) ==
    /\ At(r, "store")
    /\ Become(r, Idle)
    /\ UNCHANGED <<customer, disk, owner, contended, aborts>>

PointToFile(r) ==
    /\ At(r, "point")
    /\ customer' = WithAvatar(req[r].id, req[r].file)
    /\ UnlinkPrevious(r)
    /\ UNCHANGED <<disk, owner, contended, aborts>>

StartRemove(r, i) ==
    ReadAvatar(r, i, "clear")

ClearAvatar(r) ==
    /\ At(r, "clear")
    /\ customer' = WithAvatar(req[r].id, None)
    /\ UnlinkPrevious(r)
    /\ UNCHANGED <<disk, owner, contended, aborts>>

(* Variant, not the code: the unlink of a replaced file is forgotten. *)
UnlinkNothing(r) ==
    /\ At(r, "unlink")
    /\ Become(r, Idle)
    /\ UNCHANGED <<customer, disk, owner, contended, aborts>>

Unlink(r) ==
    /\ At(r, "unlink")
    /\ disk' = disk \ {req[r].previous}
    /\ Become(r, Idle)
    /\ UNCHANGED <<customer, owner, contended, aborts>>

(* NotFoundException: every operation but create asks for a live customer. *)
NotFound(r, i) ==
    /\ At(r, "idle")
    /\ ~Live(i)
    /\ UNCHANGED vars

(* A process dies, a statement throws, an unlink fails silently. *)
Abort(r) ==
    /\ ~At(r, "idle")
    /\ aborts < MaxAborts
    /\ aborts' = aborts + 1
    /\ contended' = contended \cup {i \in Ids : r \in Handling(i)}
    /\ Become(r, Idle)
    /\ UNCHANGED <<customer, disk, owner>>

-------------------------------------------------------------------------------

Next ==
    \E r \in Requests :
        \/ \E n \in Names, e \in Emails \cup {None} : StartCreate(r, n, e)
        \/ \E i \in Ids, n \in Names, e \in Emails \cup {None} : StartUpdate(r, i, n, e)
        \/ CheckName(r)
        \/ CheckEmail(r)
        \/ \E i \in Ids : Insert(r, i)
        \/ Update(r)
        \/ \E i \in Ids : StartDelete(r, i) \/ StartUpload(r, i) \/ StartRemove(r, i) \/ NotFound(r, i)
        \/ SoftDelete(r)
        \/ \E f \in Files : StoreFile(r, f)
        \/ RefuseAvatar(r)
        \/ PointToFile(r)
        \/ ClearAvatar(r)
        \/ Unlink(r)
        \/ Abort(r)

Spec == Init /\ [][Next]_vars

-------------------------------------------------------------------------------
(* Properties. *)

(* The variables keep their types. *)
TypeOK ==
    /\ customer \in [Ids -> Row]
    /\ disk \in SUBSET Files
    /\ owner \in [Files -> Ids \cup {None}]
    /\ req \in [Requests -> Request]
    /\ contended \in SUBSET Ids
    /\ aborts \in 0 .. MaxAborts

(* The avatar of a live customer is a file that exists, however uploads,     *)
(* removals and deletions of one customer overlap and wherever they die:     *)
(* nobody unlinks a file before the row stopped naming it.                   *)
NoDanglingAvatar ==
    \A i \in Ids : Live(i) /\ customer[i].avatar # None => customer[i].avatar \in disk

HoldersOfName(n) == {i \in Ids : Live(i) /\ customer[i].name = n}
HoldersOfEmail(e) == {i \in Ids : Live(i) /\ customer[i].email = e}

(* assertUnique against overlapping requests: only requests that checked     *)
(* before the first of them wrote can share a value, so a name or an email   *)
(* never has more holders than requests overlap; one, when none do.          *)
DuplicatesNeedOverlap ==
    /\ \A n \in Names : Cardinality(HoldersOfName(n)) <= Cardinality(Requests)
    /\ \A e \in Emails : Cardinality(HoldersOfEmail(e)) <= Cardinality(Requests)

(* docs/api-conventions.md: "Replacing or deleting a customer removes the    *)
(* old file."  A file is the avatar of a live customer or in the hands of a  *)
(* request; left behind it is only where two avatar requests of one customer *)
(* overlapped or one died.                                                   *)
FilesAreAccountedFor ==
    \A f \in disk :
        LET i == owner[f] IN
        \/ Live(i) /\ customer[i].avatar = f
        \/ \E r \in Handling(i) : f \in {req[r].previous, req[r].file}
        \/ i \in contended
===============================================================================
