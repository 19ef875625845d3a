------------------------ MODULE CustomerRegistryProofs ------------------------
(***************************************************************************)
(* Proofs about CustomerRegistry, for any number of requests, customers    *)
(* and files.                                                              *)
(*                                                                         *)
(* NoDanglingAvatar rests on who may name a file.  A path is produced for  *)
(* one customer, so only requests of that customer compete for it; a file  *)
(* just stored is named by the request that stored it and by nobody else;  *)
(* and a file about to be unlinked is one no live row names any more.      *)
(*                                                                         *)
(* FilesAreAccountedFor rests on what a request knows while it is alone:   *)
(* where the avatar requests of a customer do not overlap, the avatar a    *)
(* request read is still the one of the row.                               *)
(*                                                                         *)
(* How many live customers may share a name or an email is about           *)
(* assertUnique, which looks a value up in one statement and writes it in  *)
(* another.  The bound is not inductive: it forgets the requests that      *)
(* looked the value up and have not written it.  UInv counts them too.  A  *)
(* look-up passes only when no customer but the request's own holds the    *)
(* value, so at that moment all the count is requests; from then on a      *)
(* request that writes turns from a pending one into a holder.             *)
(***************************************************************************)
EXTENDS CustomerRegistry, FiniteSetTheorems, TLAPS

-------------------------------------------------------------------------------
(* Type correctness.  It needs to know which requests act on a customer. *)

ActsOnCustomer ==
    \A r \in Requests :
        req[r].pc \in {"softDelete", "store", "point", "clear", "unlink"} => req[r].id \in Ids

(* The empty table has the right types. *)
LEMMA InitTypes == Init => TypeOK /\ ActsOnCustomer
  BY MaxAbortsAssumption DEF Init, TypeOK, ActsOnCustomer, NoRow, Row, Idle, Request, PC

(* The records a request becomes are requests. *)
LEMMA RequestTypes ==
  /\ Idle \in Request
  /\ \A pc \in PC, i \in Ids \cup {None}, n \in Names \cup {None}, e \in Emails \cup {None} :
        Saving(pc, i, n, e) \in Request
  /\ \A pc \in PC, i \in Ids \cup {None}, p \in Files \cup {None}, f \in Files \cup {None} :
        Changing(pc, i, p, f) \in Request
  BY DEF Idle, Saving, Changing, Request, PC

(* A row keeps its type when its state or its avatar changes. *)
LEMMA RowTypes ==
  ASSUME TypeOK, NEW i \in Ids
  PROVE  /\ \A state \in {"absent", "live", "deleted"} : WithState(i, state) \in [Ids -> Row]
         /\ \A f \in Files \cup {None} : WithAvatar(i, f) \in [Ids -> Row]
  <1>1. customer[i] \in Row
    BY DEF TypeOK
  <1> QED
    BY <1>1 DEF TypeOK, WithState, WithAvatar, Row

(* A request of the right type that acts on a customer it has. *)
Sound(q) ==
    /\ q \in Request
    /\ q.pc \in {"softDelete", "store", "point", "clear", "unlink"} => q.id \in Ids

(* One request moves on and the others stay what they are. *)
LEMMA BecomeTypes ==
  ASSUME NEW r \in Requests, NEW q, Sound(q), Become(r, q), TypeOK, ActsOnCustomer
  PROVE  req' \in [Requests -> Request] /\ ActsOnCustomer'
  BY DEF Become, Sound, TypeOK, ActsOnCustomer

(* UnlinkPrevious ends the request, or leaves it the file it has to unlink. *)
LEMMA UnlinkPreviousTypes ==
  ASSUME NEW r \in Requests, TypeOK, ActsOnCustomer, UnlinkPrevious(r), req[r].id \in Ids
  PROVE  req' \in [Requests -> Request] /\ ActsOnCustomer'
  <1>1. req[r].previous \in Files \cup {None}
    BY DEF TypeOK, Request
  <1>2. Sound(Idle)
    BY RequestTypes DEF Sound, Idle
  <1>3. Sound(Changing("unlink", req[r].id, req[r].previous, None))
    <2>1. Changing("unlink", req[r].id, req[r].previous, None) \in Request
      BY <1>1, RequestTypes DEF PC
    <2> QED
      BY <2>1 DEF Sound, Changing
  <1> QED
    BY <1>2, <1>3, BecomeTypes DEF UnlinkPrevious

(* Every statement keeps the types. *)
LEMMA StepTypes == TypeOK /\ ActsOnCustomer /\ [Next]_vars => TypeOK' /\ ActsOnCustomer'
  <1> SUFFICES ASSUME TypeOK, ActsOnCustomer, [Next]_vars PROVE TypeOK' /\ ActsOnCustomer'
    OBVIOUS
  <1>0. Sound(Idle)
    BY RequestTypes DEF Sound, Idle
  <1>1. CASE UNCHANGED vars
    BY <1>1 DEF vars, TypeOK, ActsOnCustomer
  <1>2. ASSUME NEW r \in Requests, NEW n \in Names, NEW e \in Emails \cup {None}, StartCreate(r, n, e)
        PROVE  TypeOK' /\ ActsOnCustomer'
    <2>1. Sound(Saving("name", None, n, e))
      BY RequestTypes DEF Sound, Saving, PC
    <2> QED
      BY <1>2, <2>1, BecomeTypes DEF StartCreate, TypeOK
  <1>3. ASSUME NEW r \in Requests, NEW i \in Ids, NEW n \in Names, NEW e \in Emails \cup {None},
               StartUpdate(r, i, n, e)
        PROVE  TypeOK' /\ ActsOnCustomer'
    <2>1. Sound(Saving("name", i, n, e))
      BY RequestTypes DEF Sound, Saving, PC
    <2> QED
      BY <1>3, <2>1, BecomeTypes DEF StartUpdate, TypeOK
  <1>4. ASSUME NEW r \in Requests, CheckName(r) PROVE TypeOK' /\ ActsOnCustomer'
    <2>1. Sound(Saving("email", req[r].id, req[r].name, req[r].email))
      BY RequestTypes DEF Sound, Saving, PC, TypeOK, Request
    <2> QED
      BY <1>0, <1>4, <2>1, BecomeTypes DEF CheckName, TypeOK
  <1>5. ASSUME NEW r \in Requests, CheckEmail(r) PROVE TypeOK' /\ ActsOnCustomer'
    <2>1. Sound(Saving("write", req[r].id, req[r].name, req[r].email))
      BY RequestTypes DEF Sound, Saving, PC, TypeOK, Request
    <2> QED
      BY <1>0, <1>5, <2>1, BecomeTypes DEF CheckEmail, TypeOK
  <1>6. ASSUME NEW r \in Requests, NEW i \in Ids, Insert(r, i) PROVE TypeOK' /\ ActsOnCustomer'
    <2>1. customer' \in [Ids -> Row]
      BY <1>6 DEF Insert, TypeOK, Request, Row
    <2> QED
      BY <1>0, <1>6, <2>1, BecomeTypes DEF Insert, TypeOK
  <1>7. ASSUME NEW r \in Requests, Update(r) PROVE TypeOK' /\ ActsOnCustomer'
    <2>1. req[r] \in Request /\ req[r].id \in Ids
      BY <1>7 DEF Update, TypeOK, Request
    <2>2. customer[req[r].id] \in Row
      BY <2>1 DEF TypeOK
    <2>3. customer' \in [Ids -> Row]
      BY <1>7, <2>1, <2>2 DEF Update, TypeOK, Request, Row
    <2> QED
      BY <1>0, <1>7, <2>3, BecomeTypes DEF Update, TypeOK
  <1>8. ASSUME NEW r \in Requests, NEW i \in Ids,
               NEW pc \in {"softDelete", "store", "clear"}, ReadAvatar(r, i, pc)
        PROVE  TypeOK' /\ ActsOnCustomer'
    <2>1. customer[i].avatar \in Files \cup {None}
      BY DEF TypeOK, Row
    <2>2. Changing(pc, i, customer[i].avatar, None) \in Request
      BY <2>1, RequestTypes DEF PC
    <2>3. Sound(Changing(pc, i, customer[i].avatar, None))
      BY <2>2 DEF Sound, Changing
    <2> QED
      BY <1>8, <2>3, BecomeTypes DEF ReadAvatar, TypeOK
  <1>9. ASSUME NEW r \in Requests, SoftDelete(r) PROVE TypeOK' /\ ActsOnCustomer'
    <2>1. req[r].id \in Ids
      BY <1>9 DEF SoftDelete, At, ActsOnCustomer
    <2> QED
      BY <1>9, <2>1, RowTypes, UnlinkPreviousTypes DEF SoftDelete, TypeOK
  <1>10. ASSUME NEW r \in Requests, NEW f \in Files, StoreFile(r, f) PROVE TypeOK' /\ ActsOnCustomer'
    <2>1. req[r].id \in Ids /\ req[r].previous \in Files \cup {None}
      BY <1>10 DEF StoreFile, At, ActsOnCustomer, TypeOK, Request
    <2>2. Changing("point", req[r].id, req[r].previous, f) \in Request
      BY <2>1, RequestTypes DEF PC
    <2>3. Sound(Changing("point", req[r].id, req[r].previous, f))
      BY <2>1, <2>2 DEF Sound, Changing
    <2> QED
      BY <1>10, <2>1, <2>3, BecomeTypes DEF StoreFile, TypeOK
  <1>11. ASSUME NEW r \in Requests, RefuseAvatar(r) PROVE TypeOK' /\ ActsOnCustomer'
    BY <1>0, <1>11, BecomeTypes DEF RefuseAvatar, TypeOK
  <1>12. ASSUME NEW r \in Requests, PointToFile(r) PROVE TypeOK' /\ ActsOnCustomer'
    <2>1. req[r].id \in Ids /\ req[r].file \in Files \cup {None}
      BY <1>12 DEF PointToFile, At, ActsOnCustomer, TypeOK, Request
    <2> QED
      BY <1>12, <2>1, RowTypes, UnlinkPreviousTypes DEF PointToFile, TypeOK
  <1>13. ASSUME NEW r \in Requests, ClearAvatar(r) PROVE TypeOK' /\ ActsOnCustomer'
    <2>1. req[r].id \in Ids
      BY <1>13 DEF ClearAvatar, At, ActsOnCustomer
    <2> QED
      BY <1>13, <2>1, RowTypes, UnlinkPreviousTypes DEF ClearAvatar, TypeOK
  <1>14. ASSUME NEW r \in Requests, Unlink(r) PROVE TypeOK' /\ ActsOnCustomer'
    BY <1>0, <1>14, BecomeTypes DEF Unlink, TypeOK
  <1>15. ASSUME NEW r \in Requests, Abort(r) PROVE TypeOK' /\ ActsOnCustomer'
    <2>1. aborts' \in 0 .. MaxAborts
      BY <1>15, MaxAbortsAssumption DEF Abort, TypeOK
    <2> QED
      BY <1>0, <1>15, <2>1, BecomeTypes DEF Abort, TypeOK
  <1>16. ASSUME NEW r \in Requests, NEW i \in Ids, NotFound(r, i) PROVE TypeOK' /\ ActsOnCustomer'
    BY <1>1, <1>16 DEF NotFound
  <1>17. ASSUME NEW r \in Requests, NEW i \in Ids, StartDelete(r, i) \/ StartUpload(r, i) \/ StartRemove(r, i)
         PROVE  TypeOK' /\ ActsOnCustomer'
    BY <1>8, <1>17 DEF StartDelete, StartUpload, StartRemove
  <1>18. ASSUME NEW r \in Requests,
                \/ \E n \in Names, e \in Emails \cup {None} : StartCreate(r, n, e)
                \/ \E i \in Ids, n \in Names, e \in Emails \cup {None} : StartUpdate(r, i, n, e)
                \/ \E i \in Ids : Insert(r, i)
                \/ \E i \in Ids : StartDelete(r, i) \/ StartUpload(r, i) \/ StartRemove(r, i) \/ NotFound(r, i)
                \/ \E f \in Files : StoreFile(r, f)
         PROVE  TypeOK' /\ ActsOnCustomer'
    BY <1>2, <1>3, <1>6, <1>10, <1>16, <1>17, <1>18
  <1> QED
    BY <1>1, <1>4, <1>5, <1>7, <1>9, <1>11, <1>12, <1>13, <1>14, <1>15, <1>18 DEF Next

(* The variables keep their types, for any number of requests, customers and *)
(* files.                                                                    *)
THEOREM TypeCorrect == Spec => []TypeOK
  BY InitTypes, StepTypes, PTL DEF Spec
-------------------------------------------------------------------------------
(* Who may name a file. *)

(* A path in use was produced for the customer that uses it. *)
FilesHaveOwners ==
    /\ \A i \in Ids : customer[i].avatar # None => owner[customer[i].avatar] = i
    /\ \A r \in Requests :
          /\ req[r].previous # None => owner[req[r].previous] = req[r].id /\ req[r].id # None
          /\ req[r].file # None => At(r, "point") /\ owner[req[r].file] = req[r].id

(* The file a request just stored is there, and nobody else names it. *)
StoredFileIsNew ==
    \A r \in Requests : At(r, "point") =>
        /\ req[r].file # None /\ req[r].file \in disk
        /\ \A i \in Ids : customer[i].avatar # req[r].file
        /\ \A s \in Requests : req[s].previous # req[r].file
        /\ \A s \in Requests : s # r => req[s].file # req[r].file

(* The file a request is about to unlink is no live customer's avatar. *)
UnlinkedFileIsFree ==
    \A r \in Requests : At(r, "unlink") =>
        /\ req[r].previous # None
        /\ \A i \in Ids : Live(i) => customer[i].avatar # req[r].previous

IInv ==
    /\ TypeOK
    /\ ActsOnCustomer
    /\ FilesHaveOwners
    /\ StoredFileIsNew
    /\ UnlinkedFileIsFree
    /\ NoDanglingAvatar

(* A request that names no file, beside rows that gain no avatar. *)
LEMMA NamesNoFile ==
  ASSUME IInv, TypeOK', ActsOnCustomer',
         NEW r \in Requests, NEW q,
         Become(r, q), q.previous = None, q.file = None, q.pc \notin {"point", "unlink"},
         disk' = disk, owner' = owner,
         \A i \in Ids : /\ customer'[i].avatar \in {customer[i].avatar, None}
                        /\ customer'[i].avatar # None /\ Live(i)' => Live(i)
  PROVE  IInv'
  <1>1. /\ req'[r] = q
        /\ \A s \in Requests : s # r => req'[s] = req[s]
    BY DEF Become, IInv, TypeOK
  <1>2. FilesHaveOwners'
    BY <1>1 DEF IInv, FilesHaveOwners, At
  <1>3. StoredFileIsNew'
    BY <1>1 DEF IInv, StoredFileIsNew, At
  <1>4. UnlinkedFileIsFree'
    BY <1>1 DEF IInv, UnlinkedFileIsFree, At
  <1>5. NoDanglingAvatar'
    BY <1>1 DEF IInv, NoDanglingAvatar
  <1> QED
    BY <1>2, <1>3, <1>4, <1>5 DEF IInv

(* A request reads the avatar of its customer. *)
LEMMA ReadAvatarSafe ==
  ASSUME IInv, TypeOK', ActsOnCustomer',
         NEW r \in Requests, NEW i \in Ids, NEW pc \in {"softDelete", "store", "clear"},
         ReadAvatar(r, i, pc)
  PROVE  IInv'
  <1>1. /\ req'[r] = Changing(pc, i, customer[i].avatar, None)
        /\ \A s \in Requests : s # r => req'[s] = req[s]
        /\ customer' = customer /\ disk' = disk /\ owner' = owner
    BY DEF ReadAvatar, Become, IInv, TypeOK
  <1>2. /\ req'[r].pc = pc /\ req'[r].id = i
        /\ req'[r].previous = customer[i].avatar /\ req'[r].file = None
    BY <1>1 DEF Changing
  <1>3. FilesHaveOwners'
    BY <1>1, <1>2, NoneIsNoData DEF IInv, FilesHaveOwners, At
  <1>4. StoredFileIsNew'
    BY <1>1, <1>2 DEF IInv, StoredFileIsNew, At
  <1>5. UnlinkedFileIsFree'
    BY <1>1, <1>2 DEF IInv, UnlinkedFileIsFree, At, Live
  <1>6. NoDanglingAvatar'
    BY <1>1 DEF IInv, NoDanglingAvatar, Live
  <1> QED
    BY <1>3, <1>4, <1>5, <1>6 DEF IInv

(* A request stores a file under a path nobody had before. *)
LEMMA StoreFileSafe ==
  ASSUME IInv, TypeOK', ActsOnCustomer', NEW r \in Requests, NEW f \in Files, StoreFile(r, f)
  PROVE  IInv'
  <1>1. /\ req'[r] = Changing("point", req[r].id, req[r].previous, f)
        /\ \A s \in Requests : s # r => req'[s] = req[s]
        /\ customer' = customer /\ disk' = disk \cup {f}
        /\ owner[f] = None /\ owner'[f] = req[r].id
        /\ \A g \in Files : g # f => owner'[g] = owner[g]
        /\ req[r].id \in Ids
    BY DEF StoreFile, Become, At, IInv, TypeOK, ActsOnCustomer
  <1>2. /\ req'[r].pc = "point" /\ req'[r].id = req[r].id
        /\ req'[r].previous = req[r].previous /\ req'[r].file = f
    BY <1>1 DEF Changing
  <1>3. /\ \A i \in Ids : customer[i].avatar # f /\ customer[i].avatar \in Files \cup {None}
        /\ \A s \in Requests : /\ req[s].previous # f /\ req[s].previous \in Files \cup {None}
                               /\ req[s].file # f /\ req[s].file \in Files \cup {None}
    <2>1. \A i \in Ids : customer[i].avatar # f
      BY <1>1, NoneIsNoData DEF IInv, FilesHaveOwners
    <2>2. \A s \in Requests : req[s].previous # f
      BY <1>1, NoneIsNoData DEF IInv, FilesHaveOwners
    <2>3. \A s \in Requests : req[s].file # f
      BY <1>1, NoneIsNoData DEF IInv, FilesHaveOwners, ActsOnCustomer, At
    <2> QED
      BY <2>1, <2>2, <2>3 DEF IInv, TypeOK, Row, Request
  <1>4. FilesHaveOwners'
    <2>1. \A i \in Ids : customer'[i].avatar # None => owner'[customer'[i].avatar] = i
      BY <1>1, <1>3 DEF IInv, FilesHaveOwners
    <2>2. ASSUME NEW s \in Requests, s # r
          PROVE  /\ req'[s].previous # None => owner'[req'[s].previous] = req'[s].id /\ req'[s].id # None
                 /\ req'[s].file # None => req'[s].pc = "point" /\ owner'[req'[s].file] = req'[s].id
      BY <1>1, <1>3, <2>2 DEF IInv, FilesHaveOwners, At
    <2>3. req[r].previous # None => owner'[req[r].previous] = req[r].id
      BY <1>1, <1>3 DEF IInv, FilesHaveOwners
    <2>4. req[r].id # None
      BY <1>1, NoneIsNoData
    <2> QED
      BY <1>1, <1>2, <2>1, <2>2, <2>3, <2>4 DEF FilesHaveOwners, At
  <1>5. StoredFileIsNew'
    <2>1. f # None
      BY NoneIsNoData
    <2>2. ASSUME NEW s \in Requests, At(s, "point")', s # r
          PROVE  /\ req'[s].file # None /\ req'[s].file \in disk'
                 /\ \A i \in Ids : customer'[i].avatar # req'[s].file
                 /\ \A t \in Requests : req'[t].previous # req'[s].file
                 /\ \A t \in Requests : t # s => req'[t].file # req'[s].file
      BY <1>1, <1>2, <1>3, <2>2 DEF IInv, StoredFileIsNew, At
    <2> QED
      BY <1>1, <1>2, <1>3, <2>1, <2>2 DEF StoredFileIsNew
  <1>6. UnlinkedFileIsFree'
    BY <1>1, <1>2 DEF IInv, UnlinkedFileIsFree, At, Live
  <1>7. NoDanglingAvatar'
    BY <1>1 DEF IInv, NoDanglingAvatar, Live
  <1> QED
    BY <1>4, <1>5, <1>6, <1>7 DEF IInv

(* A request gives its customer another avatar, or deletes it, and goes on   *)
(* to the file the row had when it was read.                                 *)
LEMMA GiveUpSafe ==
  ASSUME IInv, TypeOK', ActsOnCustomer', NEW r \in Requests, NEW i \in Ids, NEW f,
         req[r].id = i,
         req[r].pc \in {"softDelete", "point", "clear"},
         UnlinkPrevious(r), disk' = disk, owner' = owner,
         \A j \in Ids : j # i => customer'[j] = customer[j],
         customer'[i].avatar = f,
         \/ ~Live(i)' /\ f = customer[i].avatar
         \/ f = None
         \/ At(r, "point") /\ f = req[r].file
  PROVE  IInv'
  <1> DEFINE q == req'[r]
  <1>1. /\ \A s \in Requests : s # r => req'[s] = req[s]
        /\ q.file = None
        /\ \/ q.pc = "idle" /\ q.previous = None
           \/ q.pc = "unlink" /\ q.id = i /\ q.previous = req[r].previous /\ q.previous # None
    BY DEF UnlinkPrevious, Become, Changing, Idle, IInv, TypeOK
  <1>2. FilesHaveOwners'
    BY <1>1 DEF IInv, FilesHaveOwners, At
  <1>3. StoredFileIsNew'
    BY <1>1 DEF IInv, StoredFileIsNew, At
  <1>4. \A s \in Requests : req[s].previous # None => f # req[s].previous \/ ~Live(i)'
    BY DEF IInv, StoredFileIsNew
  <1>5. UnlinkedFileIsFree'
    <2>1. ASSUME NEW s \in Requests, At(s, "unlink")'
          PROVE  /\ req'[s].previous # None
                 /\ req'[s].previous = req[s].previous
                 /\ s # r => At(s, "unlink")
      BY <1>1, <2>1 DEF IInv, UnlinkedFileIsFree, At
    <2>2. ASSUME NEW s \in Requests, At(s, "unlink")', NEW j \in Ids, Live(j)', j # i
          PROVE  customer'[j].avatar # req'[s].previous
      <3>1. Live(j) /\ customer'[j].avatar = customer[j].avatar
        BY <2>2 DEF Live
      <3>2. CASE s = r
        BY <2>1, <2>2, <3>1, <3>2 DEF IInv, FilesHaveOwners
      <3>3. CASE s # r
        BY <2>1, <2>2, <3>1, <3>3 DEF IInv, UnlinkedFileIsFree
      <3> QED
        BY <3>2, <3>3
    <2> QED
      BY <1>4, <2>1, <2>2 DEF UnlinkedFileIsFree
  <1>6. NoDanglingAvatar'
    <2>1. ASSUME NEW j \in Ids, Live(j)', customer'[j].avatar # None, j # i
          PROVE  customer'[j].avatar \in disk'
      BY <2>1 DEF IInv, NoDanglingAvatar, Live
    <2>2. Live(i)' /\ f # None => f \in disk'
      BY DEF IInv, StoredFileIsNew
    <2> QED
      BY <2>1, <2>2 DEF NoDanglingAvatar
  <1> QED
    BY <1>2, <1>3, <1>5, <1>6 DEF IInv

(* A request unlinks the file its customer gave up. *)
LEMMA UnlinkSafe ==
  ASSUME IInv, TypeOK', ActsOnCustomer', NEW r \in Requests, Unlink(r)
  PROVE  IInv'
  <1>1. /\ req'[r] = Idle
        /\ \A s \in Requests : s # r => req'[s] = req[s]
        /\ customer' = customer /\ disk' = disk \ {req[r].previous} /\ owner' = owner
    BY DEF Unlink, Become, IInv, TypeOK
  <1>2. req'[r].pc = "idle" /\ req'[r].previous = None /\ req'[r].file = None
    BY <1>1 DEF Idle
  <1>3. FilesHaveOwners'
    BY <1>1, <1>2 DEF IInv, FilesHaveOwners, At
  <1>4. StoredFileIsNew'
    BY <1>1, <1>2 DEF IInv, StoredFileIsNew, At
  <1>5. UnlinkedFileIsFree'
    BY <1>1, <1>2 DEF IInv, UnlinkedFileIsFree, At, Live
  <1>6. NoDanglingAvatar'
    BY <1>1 DEF IInv, UnlinkedFileIsFree, NoDanglingAvatar, Unlink, Live
  <1> QED
    BY <1>3, <1>4, <1>5, <1>6 DEF IInv

(* The empty table and the empty directory. *)
LEMMA InitSafe == Init => IInv
  BY InitTypes DEF Init, IInv, FilesHaveOwners, StoredFileIsNew, UnlinkedFileIsFree, NoDanglingAvatar,
                   NoRow, Idle, At, Live

(* Every statement and every file operation keeps the invariant. *)
LEMMA StepSafe == IInv /\ [Next]_vars => IInv'
  <1> SUFFICES ASSUME IInv, [Next]_vars PROVE IInv'
    OBVIOUS
  <1>0. TypeOK' /\ ActsOnCustomer'
    BY StepTypes DEF IInv
  <1>1. CASE UNCHANGED vars
    BY <1>1 DEF vars, IInv, TypeOK, ActsOnCustomer, FilesHaveOwners, StoredFileIsNew,
                UnlinkedFileIsFree, NoDanglingAvatar, At, Live
  <1>2. ASSUME NEW r \in Requests, NEW n \in Names, NEW e \in Emails \cup {None}, StartCreate(r, n, e)
        PROVE  IInv'
    <2>1. \A i \in Ids : customer'[i].avatar = customer[i].avatar /\ (Live(i)' => Live(i))
      BY <1>2 DEF StartCreate, Live
    <2> QED
      BY <1>0, <1>2, <2>1, NamesNoFile DEF StartCreate, Saving
  <1>3. ASSUME NEW r \in Requests, NEW i \in Ids, NEW n \in Names, NEW e \in Emails \cup {None},
               StartUpdate(r, i, n, e)
        PROVE  IInv'
    <2>1. \A j \in Ids : customer'[j].avatar = customer[j].avatar /\ (Live(j)' => Live(j))
      BY <1>3 DEF StartUpdate, Live
    <2> QED
      BY <1>0, <1>3, <2>1, NamesNoFile DEF StartUpdate, Saving
  <1>4. ASSUME NEW r \in Requests, CheckName(r) \/ CheckEmail(r) PROVE IInv'
    <2>1. \A i \in Ids : customer'[i].avatar = customer[i].avatar /\ (Live(i)' => Live(i))
      BY <1>4 DEF CheckName, CheckEmail, Live
    <2>2. PICK q \in {Idle, Saving("email", req[r].id, req[r].name, req[r].email),
                      Saving("write", req[r].id, req[r].name, req[r].email)} : Become(r, q)
      BY <1>4 DEF CheckName, CheckEmail
    <2>3. q.previous = None /\ q.file = None /\ q.pc \notin {"point", "unlink"}
      BY <2>2 DEF Idle, Saving
    <2>4. disk' = disk /\ owner' = owner
      BY <1>4 DEF CheckName, CheckEmail
    <2> QED
      BY <1>0, <2>1, <2>2, <2>3, <2>4, NamesNoFile
  <1>5. ASSUME NEW r \in Requests, RefuseAvatar(r) \/ Abort(r) PROVE IInv'
    <2>1. \A i \in Ids : customer'[i].avatar = customer[i].avatar /\ (Live(i)' => Live(i))
      BY <1>5 DEF RefuseAvatar, Abort, Live
    <2> QED
      BY <1>0, <1>5, <2>1, NamesNoFile DEF RefuseAvatar, Abort, Idle
  <1>6. ASSUME NEW r \in Requests, NEW i \in Ids, Insert(r, i) PROVE IInv'
    <2>1. /\ customer'[i].avatar = None
          /\ \A j \in Ids : j # i => customer'[j] = customer[j]
      BY <1>6 DEF Insert, IInv, TypeOK
    <2>2. \A j \in Ids : /\ customer'[j].avatar \in {customer[j].avatar, None}
                         /\ customer'[j].avatar # None /\ Live(j)' => Live(j)
      BY <2>1 DEF Live
    <2> QED
      BY <1>0, <1>6, <2>2, NamesNoFile DEF Insert, Idle
  <1>7. ASSUME NEW r \in Requests, Update(r) PROVE IInv'
    <2>1. \A j \in Ids : customer'[j].avatar = customer[j].avatar /\ customer'[j].state = customer[j].state
      BY <1>7 DEF Update, IInv, TypeOK
    <2> QED
      BY <1>0, <1>7, <2>1, NamesNoFile DEF Update, Idle, Live
  <1>8. ASSUME NEW r \in Requests, NEW i \in Ids, StartDelete(r, i) \/ StartUpload(r, i) \/ StartRemove(r, i)
        PROVE  IInv'
    BY <1>0, <1>8, ReadAvatarSafe DEF StartDelete, StartUpload, StartRemove
  <1>9. ASSUME NEW r \in Requests, SoftDelete(r) PROVE IInv'
    <2>1. req[r].pc = "softDelete" /\ req[r].id \in Ids
      BY <1>9 DEF SoftDelete, At, IInv, ActsOnCustomer
    <2>2. /\ customer'[req[r].id].avatar = customer[req[r].id].avatar
          /\ customer'[req[r].id].state = "deleted"
          /\ \A j \in Ids : j # req[r].id => customer'[j] = customer[j]
      BY <1>9, <2>1 DEF SoftDelete, WithState, IInv, TypeOK
    <2> QED
      BY <1>0, <1>9, <2>1, <2>2, GiveUpSafe DEF SoftDelete, Live
  <1>10. ASSUME NEW r \in Requests, PointToFile(r) PROVE IInv'
    <2>1. req[r].pc = "point" /\ req[r].id \in Ids
      BY <1>10 DEF PointToFile, At, IInv, ActsOnCustomer
    <2>2. /\ customer'[req[r].id].avatar = req[r].file
          /\ \A j \in Ids : j # req[r].id => customer'[j] = customer[j]
      BY <1>10, <2>1 DEF PointToFile, WithAvatar, IInv, TypeOK
    <2> QED
      BY <1>0, <1>10, <2>1, <2>2, GiveUpSafe DEF PointToFile
  <1>11. ASSUME NEW r \in Requests, ClearAvatar(r) PROVE IInv'
    <2>1. req[r].pc = "clear" /\ req[r].id \in Ids
      BY <1>11 DEF ClearAvatar, At, IInv, ActsOnCustomer
    <2>2. /\ customer'[req[r].id].avatar = None
          /\ \A j \in Ids : j # req[r].id => customer'[j] = customer[j]
      BY <1>11, <2>1 DEF ClearAvatar, WithAvatar, IInv, TypeOK
    <2> QED
      BY <1>0, <1>11, <2>1, <2>2, GiveUpSafe DEF ClearAvatar
  <1>12. ASSUME NEW r \in Requests, NEW f \in Files, StoreFile(r, f) PROVE IInv'
    BY <1>0, <1>12, StoreFileSafe
  <1>13. ASSUME NEW r \in Requests, Unlink(r) PROVE IInv'
    BY <1>0, <1>13, UnlinkSafe
  <1>14. ASSUME NEW r \in Requests,
                \/ \E n \in Names, e \in Emails \cup {None} : StartCreate(r, n, e)
                \/ \E i \in Ids, n \in Names, e \in Emails \cup {None} : StartUpdate(r, i, n, e)
                \/ \E i \in Ids : Insert(r, i)
                \/ \E i \in Ids : StartDelete(r, i) \/ StartUpload(r, i) \/ StartRemove(r, i) \/ NotFound(r, i)
                \/ \E f \in Files : StoreFile(r, f)
         PROVE  IInv'
    BY <1>1, <1>2, <1>3, <1>6, <1>8, <1>12, <1>14 DEF NotFound
  <1> QED
    BY <1>1, <1>4, <1>5, <1>7, <1>9, <1>10, <1>11, <1>13, <1>14 DEF Next

(* However uploads, removals and deletions overlap and wherever they die, the *)
(* avatar of a live customer is a file that exists.                           *)
THEOREM AvatarsExist == Spec => []NoDanglingAvatar
  <1>1. IInv => NoDanglingAvatar
    BY DEF IInv
  <1> QED
    BY <1>1, InitSafe, StepSafe, PTL DEF Spec
-------------------------------------------------------------------------------
(* Which files may be left behind. *)

(* A request that has read an avatar and is not done. *)
Busy(r) == req[r].pc \in {"softDelete", "store", "point", "clear", "unlink"}

(* Every file was produced for a customer. *)
DiskIsOwned == \A f \in disk : owner[f] \in Ids

(* Avatar requests of a customer overlap only where that is remembered. *)
OneAtATime ==
    \A r, s \in Requests :
        r # s /\ Busy(r) /\ Busy(s) /\ req[r].id = req[s].id => req[r].id \in contended

(* What a request read of its row is still so. *)
Current(r) == Live(req[r].id) /\ customer[req[r].id].avatar = req[r].previous

(* A request that has changed nothing yet, and is alone, knows its row. *)
ReadIsCurrent ==
    \A r \in Requests :
        Busy(r) /\ req[r].pc # "unlink" /\ req[r].id \notin contended => Current(r)

AInv ==
    /\ IInv
    /\ DiskIsOwned
    /\ OneAtATime
    /\ ReadIsCurrent
    /\ FilesAreAccountedFor

(* A file with a reason to be there: the avatar of its customer, or in the   *)
(* hands of a request, or of a customer that is contended.                   *)
Kept(f) == Live(owner[f]) /\ customer[owner[f]].avatar = f
Held(f, r) == Busy(r) /\ req[r].id = owner[f] /\ f \in {req[r].previous, req[r].file}
Explained(f) == Kept(f) \/ (\E r \in Requests : Held(f, r)) \/ owner[f] \in contended

(* The property in these words. *)
LEMMA Accounting == FilesAreAccountedFor <=> \A f \in disk : Explained(f)
  BY DEF FilesAreAccountedFor, Handling, Explained, Kept, Held, Busy

(* The same of the next state. *)
LEMMA AccountingNext == (\A f \in disk' : Explained(f)') => FilesAreAccountedFor'
  BY DEF FilesAreAccountedFor, Handling, Explained, Kept, Held, Busy

(* A statement that touches no file: an SQL statement of create or update.   *)
LEMMA QuietAccounted ==
  ASSUME AInv, IInv', NEW r \in Requests, ~Busy(r), ~Busy(r)',
         \A s \in Requests : s # r => req'[s] = req[s],
         disk' = disk, owner' = owner, contended' = contended,
         \A i \in Ids : Live(i) => Live(i)' /\ customer'[i].avatar = customer[i].avatar
  PROVE  AInv'
  <1>1. \A s \in Requests : Busy(s)' => s # r /\ Busy(s) /\ req'[s] = req[s]
    BY DEF Busy
  <1>2. DiskIsOwned'
    BY DEF AInv, DiskIsOwned
  <1>3. OneAtATime'
    BY <1>1 DEF AInv, OneAtATime
  <1>4. ReadIsCurrent'
    <2>1. ASSUME NEW s \in Requests, Busy(s)', req'[s].pc # "unlink", req'[s].id \notin contended'
          PROVE  Current(s)'
      <3>1. Busy(s) /\ req'[s] = req[s] /\ req[s].id \in Ids
        BY <1>1, <2>1 DEF AInv, IInv, ActsOnCustomer, Busy
      <3>2. Current(s)
        BY <2>1, <3>1 DEF AInv, ReadIsCurrent
      <3> QED
        BY <3>1, <3>2 DEF Current, Live
    <2> QED
      BY <2>1 DEF ReadIsCurrent
  <1>5. ASSUME NEW f \in disk' PROVE Explained(f)'
    <2>1. Explained(f) /\ owner[f] \in Ids
      BY Accounting DEF AInv, DiskIsOwned
    <2>2. CASE Kept(f)
      BY <2>1, <2>2 DEF Kept, Explained, Live
    <2>3. CASE \E s \in Requests : Held(f, s)
      <3>1. PICK s \in Requests : Held(f, s)
        BY <2>3
      <3>2. s # r /\ req'[s] = req[s]
        BY <3>1 DEF Held
      <3>3. Held(f, s)'
        BY <3>1, <3>2 DEF Held, Busy
      <3> QED
        BY <3>3 DEF Explained
    <2> QED
      BY <2>1, <2>2, <2>3 DEF Explained
  <1>6. FilesAreAccountedFor'
    BY <1>5, AccountingNext
  <1> QED
    BY <1>2, <1>3, <1>4, <1>6 DEF AInv

(* A request reads the avatar of its customer; what overlaps is remembered. *)
LEMMA ReadAccounted ==
  ASSUME AInv, IInv', NEW r \in Requests, NEW i \in Ids, NEW pc \in {"softDelete", "store", "clear"},
         ReadAvatar(r, i, pc)
  PROVE  AInv'
  <1>1. /\ req'[r] = Changing(pc, i, customer[i].avatar, None)
        /\ \A s \in Requests : s # r => req'[s] = req[s]
        /\ customer' = customer /\ disk' = disk /\ owner' = owner
        /\ contended \subseteq contended'
        /\ Handling(i) # {} => i \in contended'
        /\ Live(i)
    BY DEF ReadAvatar, Become, AInv, IInv, TypeOK
  <1>2. req'[r].pc = pc /\ req'[r].id = i /\ req'[r].previous = customer[i].avatar
    BY <1>1 DEF Changing
  <1>3. ~Busy(r)
    BY DEF ReadAvatar, At, Busy
  <1>4. \A s \in Requests : s # r => (Busy(s)' <=> Busy(s))
    BY <1>1 DEF Busy
  <1>5. \A s \in Requests : Busy(s) /\ req[s].id = i => i \in contended'
    BY <1>1 DEF Handling, Busy
  <1>6. DiskIsOwned'
    BY <1>1 DEF AInv, DiskIsOwned
  <1>7. OneAtATime'
    BY <1>1, <1>2, <1>4, <1>5 DEF AInv, OneAtATime
  <1>8. ReadIsCurrent'
    <2>1. ASSUME NEW s \in Requests, Busy(s)', req'[s].pc # "unlink", req'[s].id \notin contended'
          PROVE  Current(s)'
      <3>1. CASE s = r
        BY <1>1, <1>2, <3>1 DEF Current, Live
      <3>2. CASE s # r
        BY <1>1, <1>4, <2>1, <3>2 DEF AInv, ReadIsCurrent, Current, Live
      <3> QED
        BY <3>1, <3>2
    <2> QED
      BY <2>1 DEF ReadIsCurrent
  <1>9. ASSUME NEW f \in disk' PROVE Explained(f)'
    <2>1. Explained(f)
      BY <1>1, Accounting DEF AInv
    <2>2. \A s \in Requests : Held(f, s) => Held(f, s)'
      BY <1>1, <1>3, <1>4 DEF Held
    <2> QED
      BY <1>1, <2>1, <2>2 DEF Explained, Kept, Live
  <1> QED
    BY <1>6, <1>7, <1>8, <1>9, AccountingNext DEF AInv

(* A stored file is in the hands of the request that stored it. *)
LEMMA StoreAccounted ==
  ASSUME AInv, IInv', NEW r \in Requests, NEW f \in Files, StoreFile(r, f)
  PROVE  AInv'
  <1>1. /\ req'[r] = Changing("point", req[r].id, req[r].previous, f)
        /\ \A s \in Requests : s # r => req'[s] = req[s]
        /\ customer' = customer /\ disk' = disk \cup {f} /\ contended' = contended
        /\ owner[f] = None /\ owner'[f] = req[r].id
        /\ \A g \in Files : g # f => owner'[g] = owner[g]
        /\ req[r].pc = "store" /\ req[r].id \in Ids
    BY DEF StoreFile, Become, At, AInv, IInv, TypeOK, ActsOnCustomer
  <1>2. /\ req'[r].pc = "point" /\ req'[r].id = req[r].id
        /\ req'[r].previous = req[r].previous /\ req'[r].file = f
    BY <1>1 DEF Changing
  <1>3. \A s \in Requests : (Busy(s)' <=> Busy(s)) /\ req'[s].id = req[s].id
    BY <1>1, <1>2 DEF Busy
  <1>4. \A g \in disk : g \in Files /\ g # f /\ owner'[g] = owner[g] /\ owner[g] \in Ids
    BY <1>1, NoneIsNoData DEF AInv, IInv, TypeOK, DiskIsOwned
  <1>5. DiskIsOwned'
    BY <1>1, <1>4 DEF DiskIsOwned
  <1>6. OneAtATime'
    BY <1>1, <1>3 DEF AInv, OneAtATime
  <1>7. ReadIsCurrent'
    <2>1. ASSUME NEW s \in Requests, Busy(s)', req'[s].pc # "unlink", req'[s].id \notin contended'
          PROVE  Current(s)'
      <3>1. Current(s)
        BY <1>1, <1>3, <2>1 DEF AInv, ReadIsCurrent
      <3>2. req'[s].id = req[s].id /\ req'[s].previous = req[s].previous
        BY <1>1, <1>2
      <3> QED
        BY <1>1, <3>1, <3>2 DEF Current, Live
    <2> QED
      BY <2>1 DEF ReadIsCurrent
  <1>8. ASSUME NEW g \in disk' PROVE Explained(g)'
    <2>1. CASE g = f
      <3>1. Held(f, r)'
        BY <1>1, <1>2 DEF Held, Busy
      <3> QED
        BY <2>1, <3>1 DEF Explained
    <2>2. CASE g # f
      <3>1. g \in disk /\ Explained(g) /\ owner'[g] = owner[g]
        BY <1>1, <1>4, <2>2, Accounting DEF AInv
      <3>2. req[r].file = None /\ g # None
        BY <1>1, <1>4, <3>1, NoneIsNoData DEF AInv, IInv, FilesHaveOwners, At
      <3>3. ASSUME NEW s \in Requests, Held(g, s) PROVE Held(g, s)'
        <4>1. g \in {req'[s].previous, req'[s].file}
          BY <1>1, <1>2, <3>2, <3>3 DEF Held
        <4> QED
          BY <1>3, <3>1, <3>3, <4>1 DEF Held
      <3> QED
        BY <1>1, <3>1, <3>3 DEF Explained, Kept, Live
    <2> QED
      BY <2>1, <2>2
  <1> QED
    BY <1>5, <1>6, <1>7, <1>8, AccountingNext DEF AInv

(* A request ends beside an unchanged table: what it held is gone, is an     *)
(* avatar, or belongs to a contended customer.                               *)
LEMMA ReleaseAccounted ==
  ASSUME AInv, IInv', NEW r \in Requests, Become(r, Idle),
         customer' = customer, owner' = owner, disk' \subseteq disk, contended \subseteq contended',
         \A f \in disk' : Held(f, r) => Kept(f) \/ owner[f] \in contended'
  PROVE  AInv'
  <1>1. /\ req'[r].pc = "idle"
        /\ \A s \in Requests : s # r => req'[s] = req[s]
    BY DEF Become, Idle, AInv, IInv, TypeOK
  <1>2. \A s \in Requests : Busy(s)' => s # r /\ Busy(s) /\ req'[s] = req[s]
    BY <1>1 DEF Busy
  <1>3. DiskIsOwned'
    BY DEF AInv, DiskIsOwned
  <1>4. OneAtATime'
    BY <1>2 DEF AInv, OneAtATime
  <1>5. ReadIsCurrent'
    BY <1>2 DEF AInv, ReadIsCurrent, Current, Live
  <1>6. ASSUME NEW f \in disk' PROVE Explained(f)'
    <2>1. Explained(f)
      BY Accounting DEF AInv
    <2>2. \A s \in Requests : s # r /\ Held(f, s) => Held(f, s)'
      BY <1>1 DEF Held, Busy
    <2> QED
      BY <2>1, <2>2 DEF Explained, Kept, Live
  <1> QED
    BY <1>3, <1>4, <1>5, <1>6, AccountingNext DEF AInv

(* A request gives its customer another avatar, or deletes it: the avatar it *)
(* replaces is the one it read, and it goes on to unlink it.                 *)
LEMMA GiveUpAccounted ==
  ASSUME AInv, IInv', NEW r \in Requests, NEW i \in Ids,
         req[r].id = i,
         req[r].pc \in {"softDelete", "point", "clear"},
         UnlinkPrevious(r), disk' = disk, owner' = owner, contended' = contended,
         \A j \in Ids : j # i => customer'[j] = customer[j],
         At(r, "point") => customer'[i].avatar = req[r].file /\ customer'[i].state = customer[i].state
  PROVE  AInv'
  <1>1. /\ \A s \in Requests : s # r => req'[s] = req[s]
        /\ req[r].previous = None => req'[r].pc = "idle"
        /\ req[r].previous # None =>
              req'[r].pc = "unlink" /\ req'[r].id = i /\ req'[r].previous = req[r].previous
    BY DEF UnlinkPrevious, Become, Changing, Idle, AInv, IInv, TypeOK
  <1>2. Busy(r)
    BY DEF Busy
  <1>3. \A s \in Requests : Busy(s)' => Busy(s) /\ req'[s].id = req[s].id
    BY <1>1, <1>2 DEF Busy
  <1>4. DiskIsOwned'
    BY DEF AInv, DiskIsOwned
  <1>5. OneAtATime'
    BY <1>3 DEF AInv, OneAtATime
  <1>6. ReadIsCurrent'
    <2>1. ASSUME NEW s \in Requests, Busy(s)', req'[s].pc # "unlink", req'[s].id \notin contended'
          PROVE  Current(s)'
      <3>1. s # r /\ Busy(s) /\ req'[s] = req[s]
        BY <1>1, <1>3, <2>1 DEF Busy
      <3>2. Current(s) /\ req[s].id \in Ids
        BY <2>1, <3>1 DEF AInv, IInv, ActsOnCustomer, ReadIsCurrent, Busy
      <3>3. req[s].id # i
        BY <1>2, <2>1, <3>1 DEF AInv, OneAtATime
      <3> QED
        BY <3>1, <3>2, <3>3 DEF Current, Live
    <2> QED
      BY <2>1 DEF ReadIsCurrent
  <1>7. ASSUME NEW f \in disk' PROVE Explained(f)'
    <2>1. Explained(f) /\ owner[f] \in Ids /\ f # None
      BY Accounting, NoneIsNoData DEF AInv, IInv, TypeOK, DiskIsOwned
    <2>2. \A s \in Requests : s # r /\ Held(f, s) => Held(f, s)'
      BY <1>1 DEF Held, Busy
    <2>3. owner[f] = i /\ f = req[r].previous => Held(f, r)'
      BY <1>1, <2>1 DEF Held, Busy
    <2>4. CASE owner[f] # i
      <3>1. ~Held(f, r)
        BY <2>4 DEF Held
      <3> QED
        BY <2>1, <2>2, <2>4, <3>1 DEF Explained, Kept, Live
    <2>5. CASE owner[f] = i /\ i \notin contended
      <3>1. Current(r)
        BY <1>2, <2>5 DEF AInv, ReadIsCurrent
      <3>2. CASE Kept(f)
        BY <2>3, <2>5, <3>1, <3>2 DEF Kept, Current, Explained
      <3>3. CASE Held(f, r) /\ f # req[r].previous
        <4>1. f = req[r].file /\ At(r, "point")
          BY <2>1, <3>3 DEF Held, AInv, IInv, FilesHaveOwners
        <4>2. Kept(f)'
          BY <2>5, <3>1, <4>1 DEF Kept, Current, Live
        <4> QED
          BY <4>2 DEF Explained
      <3> QED
        BY <2>1, <2>2, <2>3, <2>5, <3>2, <3>3 DEF Explained
    <2>6. CASE owner[f] = i /\ i \in contended
      BY <2>6 DEF Explained
    <2> QED
      BY <2>4, <2>5, <2>6
  <1> QED
    BY <1>4, <1>5, <1>6, <1>7, AccountingNext DEF AInv

(* The empty table and the empty directory. *)
LEMMA InitAccounted == Init => AInv
  BY InitSafe DEF Init, AInv, DiskIsOwned, OneAtATime, ReadIsCurrent, FilesAreAccountedFor, Busy, Idle

(* Every statement and every file operation keeps the books. *)
LEMMA StepAccounted == AInv /\ [Next]_vars => AInv'
  <1> SUFFICES ASSUME AInv, [Next]_vars PROVE AInv'
    OBVIOUS
  <1>0. IInv'
    BY StepSafe DEF AInv
  <1>1. CASE UNCHANGED vars
    <2>1. \A f \in disk : Explained(f)' <=> Explained(f)
      BY <1>1 DEF vars, Explained, Kept, Held, Live, Busy
    <2>2. DiskIsOwned' /\ OneAtATime' /\ ReadIsCurrent'
      BY <1>1 DEF vars, AInv, DiskIsOwned, OneAtATime, ReadIsCurrent, Busy, Current, Live
    <2> QED
      BY <1>0, <1>1, <2>1, <2>2, Accounting, AccountingNext DEF vars, AInv
  <1>2. ASSUME NEW r \in Requests, NEW q, Become(r, q), req[r].pc \in {"idle", "name", "email", "write"},
               q.pc \in {"idle", "name", "email", "write"},
               disk' = disk, owner' = owner, contended' = contended,
               \A i \in Ids : Live(i) => Live(i)' /\ customer'[i].avatar = customer[i].avatar
        PROVE  AInv'
    <2>1. req'[r] = q /\ \A s \in Requests : s # r => req'[s] = req[s]
      BY <1>2 DEF Become, AInv, IInv, TypeOK
    <2>2. ~Busy(r) /\ ~Busy(r)'
      BY <1>2, <2>1 DEF Busy
    <2> QED
      BY <1>0, <1>2, <2>1, <2>2, QuietAccounted
  <1>3. ASSUME NEW r \in Requests, NEW n \in Names, NEW e \in Emails \cup {None},
               StartCreate(r, n, e) \/ \E i \in Ids : StartUpdate(r, i, n, e)
        PROVE  AInv'
    <2>1. PICK i \in Ids \cup {None} : Become(r, Saving("name", i, n, e))
      BY <1>3 DEF StartCreate, StartUpdate
    <2>2. req[r].pc = "idle" /\ UNCHANGED <<customer, disk, owner, contended>>
      BY <1>3 DEF StartCreate, StartUpdate, At
    <2> QED
      BY <1>2, <2>1, <2>2 DEF Saving, Live
  <1>4. ASSUME NEW r \in Requests, CheckName(r) \/ CheckEmail(r) PROVE AInv'
    <2>1. PICK q \in {Idle, Saving("email", req[r].id, req[r].name, req[r].email),
                      Saving("write", req[r].id, req[r].name, req[r].email)} : Become(r, q)
      BY <1>4 DEF CheckName, CheckEmail
    <2>2. q.pc \in {"idle", "name", "email", "write"}
      BY <2>1 DEF Idle, Saving
    <2>3. req[r].pc \in {"name", "email"} /\ UNCHANGED <<customer, disk, owner, contended>>
      BY <1>4 DEF CheckName, CheckEmail, At
    <2> QED
      BY <1>2, <2>1, <2>2, <2>3 DEF Live
  <1>5. ASSUME NEW r \in Requests, NEW i \in Ids, Insert(r, i) PROVE AInv'
    <2>1. /\ customer[i].state = "absent"
          /\ \A j \in Ids : j # i => customer'[j] = customer[j]
      BY <1>5 DEF Insert, AInv, IInv, TypeOK
    <2>2. \A j \in Ids : Live(j) => Live(j)' /\ customer'[j].avatar = customer[j].avatar
      BY <2>1 DEF Live
    <2> QED
      BY <1>2, <1>5, <2>2 DEF Insert, At, Idle
  <1>6. ASSUME NEW r \in Requests, Update(r) PROVE AInv'
    <2>1. \A j \in Ids : customer'[j].avatar = customer[j].avatar /\ customer'[j].state = customer[j].state
      BY <1>6 DEF Update, AInv, IInv, TypeOK
    <2> QED
      BY <1>2, <1>6, <2>1 DEF Update, At, Idle, Live
  <1>7. ASSUME NEW r \in Requests, NEW i \in Ids, StartDelete(r, i) \/ StartUpload(r, i) \/ StartRemove(r, i)
        PROVE  AInv'
    BY <1>0, <1>7, ReadAccounted DEF StartDelete, StartUpload, StartRemove
  <1>8. ASSUME NEW r \in Requests, SoftDelete(r) \/ PointToFile(r) \/ ClearAvatar(r) PROVE AInv'
    <2>1. req[r].pc \in {"softDelete", "point", "clear"} /\ req[r].id \in Ids
      BY <1>8 DEF SoftDelete, PointToFile, ClearAvatar, At, AInv, IInv, ActsOnCustomer
    <2>2. /\ \A j \in Ids : j # req[r].id => customer'[j] = customer[j]
          /\ At(r, "point") => /\ customer'[req[r].id].avatar = req[r].file
                              /\ customer'[req[r].id].state = customer[req[r].id].state
      BY <1>8, <2>1 DEF SoftDelete, PointToFile, ClearAvatar, At, WithState, WithAvatar, AInv, IInv, TypeOK
    <2> QED
      BY <1>0, <1>8, <2>1, <2>2, GiveUpAccounted DEF SoftDelete, PointToFile, ClearAvatar
  <1>9. ASSUME NEW r \in Requests, NEW f \in Files, StoreFile(r, f) PROVE AInv'
    BY <1>0, <1>9, StoreAccounted
  <1>10. ASSUME NEW r \in Requests, RefuseAvatar(r) PROVE AInv'
    <2>1. ASSUME NEW f \in disk', Held(f, r) PROVE Kept(f) \/ owner[f] \in contended'
      <3>1. f \in disk /\ f # None /\ contended' = contended /\ At(r, "store")
        BY <1>10, <2>1, NoneIsNoData DEF RefuseAvatar, AInv, IInv, TypeOK
      <3>2. f = req[r].previous
        BY <2>1, <3>1 DEF Held, AInv, IInv, FilesHaveOwners, At
      <3> QED
        BY <2>1, <3>1, <3>2 DEF Held, Kept, Current, At, AInv, ReadIsCurrent
    <2> QED
      BY <1>0, <1>10, <2>1, ReleaseAccounted DEF RefuseAvatar
  <1>11. ASSUME NEW r \in Requests, Unlink(r) PROVE AInv'
    <2>1. ASSUME NEW f \in disk' PROVE ~Held(f, r)
      <3>1. f # None /\ f # req[r].previous
        BY <1>11, <2>1, NoneIsNoData DEF Unlink, AInv, IInv, TypeOK
      <3>2. req[r].file = None
        BY <1>11 DEF Unlink, AInv, IInv, FilesHaveOwners, At
      <3> QED
        BY <3>1, <3>2 DEF Held
    <2> QED
      BY <1>0, <1>11, <2>1, ReleaseAccounted DEF Unlink
  <1>12. ASSUME NEW r \in Requests, Abort(r) PROVE AInv'
    <2>1. ASSUME NEW f \in disk', Held(f, r) PROVE owner[f] \in contended'
      BY <1>12, <2>1 DEF Abort, Held, Busy, Handling, AInv, DiskIsOwned
    <2> QED
      BY <1>0, <1>12, <2>1, ReleaseAccounted DEF Abort
  <1>13. ASSUME NEW r \in Requests,
                \/ \E n \in Names, e \in Emails \cup {None} : StartCreate(r, n, e)
                \/ \E i \in Ids, n \in Names, e \in Emails \cup {None} : StartUpdate(r, i, n, e)
                \/ \E i \in Ids : Insert(r, i)
                \/ \E i \in Ids : StartDelete(r, i) \/ StartUpload(r, i) \/ StartRemove(r, i) \/ NotFound(r, i)
                \/ \E f \in Files : StoreFile(r, f)
         PROVE  AInv'
    BY <1>1, <1>3, <1>5, <1>7, <1>9, <1>13 DEF NotFound
  <1> QED
    BY <1>1, <1>4, <1>6, <1>8, <1>10, <1>11, <1>12, <1>13 DEF Next

(* Replacing an avatar or deleting a customer leaves no file behind, unless   *)
(* avatar requests of the customer overlapped or died.                        *)
THEOREM NoFileIsLeftBehind == Spec => []FilesAreAccountedFor
  <1>1. AInv => FilesAreAccountedFor
    BY DEF AInv
  <1> QED
    BY <1>1, InitAccounted, StepAccounted, PTL DEF Spec

-------------------------------------------------------------------------------
(* Sharing a name or an email. *)


(* No more of them than there are requests. *)
Bounded(T, C) ==
    /\ IsFiniteSet(T)
    /\ Cardinality(T) + Cardinality(C) <= Cardinality(Requests)

(* Beside the customers H that hold a value, those that the pending requests *)
(* P will write it to; and the requests that will insert one.                *)
Targets(H, P, q) == H \cup {i \in Ids : \E r \in P : q[r].id = i}
Creates(P, q) == {r \in P : q[r].id = None}

Fits(H, P, q) == Bounded(Targets(H, P, q), Creates(P, q))

(* The requests that looked a value up and did not write it yet. *)
NamePending(n) == {r \in Requests : req[r].pc \in {"email", "write"} /\ req[r].name = n}
EmailPending(e) == {r \in Requests : req[r].pc = "write" /\ req[r].email = e}

NamesFit == \A n \in Names : Fits(HoldersOfName(n), NamePending(n), req)
EmailsFit == \A e \in Emails : Fits(HoldersOfEmail(e), EmailPending(e), req)

UInv ==
    /\ TypeOK
    /\ ActsOnCustomer
    /\ NamesFit
    /\ EmailsFit

-------------------------------------------------------------------------------
(* The three ways in which the count moves. *)

(* Nothing is added. *)
LEMMA FewerBounded ==
  ASSUME NEW T, NEW C \in SUBSET Requests, Bounded(T, C),
         NEW TT \in SUBSET T, NEW CC \in SUBSET C
  PROVE  Bounded(TT, CC)
  <1>1. IsFiniteSet(TT) /\ Cardinality(TT) \in Nat /\ Cardinality(T) \in Nat /\ Cardinality(TT) <= Cardinality(T)
    BY FS_Subset, FS_CardinalityType DEF Bounded
  <1>2. IsFiniteSet(C) /\ Cardinality(CC) \in Nat /\ Cardinality(C) \in Nat /\ Cardinality(CC) <= Cardinality(C)
    <2>1. IsFiniteSet(C)
      BY RequestsAreFinite, FS_Subset
    <2> QED
      BY <2>1, FS_Subset, FS_CardinalityType
  <1>3. Cardinality(Requests) \in Nat
    BY RequestsAreFinite, FS_CardinalityType
  <1> QED
    BY <1>1, <1>2, <1>3 DEF Bounded

(* A request that was about to insert did so. *)
LEMMA InsertedBounded ==
  ASSUME NEW T, NEW C \in SUBSET Requests, Bounded(T, C),
         NEW i, NEW r \in C,
         NEW TT \in SUBSET (T \cup {i}), NEW CC \in SUBSET (C \ {r})
  PROVE  Bounded(TT, CC)
  <1>1. /\ IsFiniteSet(T \cup {i})
        /\ Cardinality(T) \in Nat
        /\ Cardinality(T \cup {i}) \in Nat
        /\ Cardinality(T \cup {i}) <= Cardinality(T) + 1
    <2>1. IsFiniteSet(T)
      BY DEF Bounded
    <2>2. /\ IsFiniteSet(T \cup {i})
          /\ Cardinality(T \cup {i}) = IF i \in T THEN Cardinality(T) ELSE Cardinality(T) + 1
      BY <2>1, FS_AddElement
    <2>3. Cardinality(T) \in Nat /\ Cardinality(T \cup {i}) \in Nat
      BY <2>1, <2>2, FS_CardinalityType
    <2> QED
      BY <2>2, <2>3
  <1>2. IsFiniteSet(C)
    BY RequestsAreFinite, FS_Subset
  <1>3. /\ Cardinality(C) \in Nat /\ Cardinality(C \ {r}) \in Nat
        /\ Cardinality(C \ {r}) = Cardinality(C) - 1
    BY <1>2, FS_RemoveElement, FS_CardinalityType
  <1>4. Cardinality(Requests) \in Nat
    BY RequestsAreFinite, FS_CardinalityType
  <1>5. Bounded(T \cup {i}, C \ {r})
    BY <1>1, <1>3, <1>4 DEF Bounded
  <1>6. C \ {r} \in SUBSET Requests
    OBVIOUS
  <1> QED
    BY <1>5, <1>6, FewerBounded

(* All that is counted are requests. *)
LEMMA RequestsBounded ==
  ASSUME NEW C, NEW U, C \cup U \subseteq Requests, C \cap U = {},
         NEW target, NEW T \in SUBSET {target[r] : r \in U}
  PROVE  Bounded(T, C)
  <1>1. IsFiniteSet(C) /\ IsFiniteSet(U)
    BY RequestsAreFinite, FS_Subset
  <1>2. IsFiniteSet(C \cup U) /\ Cardinality(C \cup U) <= Cardinality(Requests)
    BY RequestsAreFinite, FS_Subset
  <1>3. Cardinality(C \cup U) = Cardinality(C) + Cardinality(U)
    <2>1. Cardinality(C \cup U) = Cardinality(C) + Cardinality(U) - Cardinality(C \cap U)
      BY <1>1, FS_Union
    <2>2. Cardinality(C \cap U) = 0
      BY FS_EmptySet
    <2>3. Cardinality(C) \in Nat /\ Cardinality(U) \in Nat
      BY <1>1, FS_CardinalityType
    <2> QED
      BY <2>1, <2>2, <2>3
  <1>4. /\ IsFiniteSet({target[r] : r \in U})
        /\ Cardinality({target[r] : r \in U}) <= Cardinality(U)
    <2>1. [r \in U |-> target[r]] \in Surjection(U, {target[r] : r \in U})
      BY DEF Surjection
    <2> QED
      BY <1>1, <2>1, FS_Surjection
  <1>5. /\ IsFiniteSet(T)
        /\ Cardinality(T) <= Cardinality({target[r] : r \in U})
    BY <1>4, FS_Subset
  <1>6. /\ Cardinality(C) \in Nat /\ Cardinality(U) \in Nat /\ Cardinality(T) \in Nat
        /\ Cardinality({target[r] : r \in U}) \in Nat /\ Cardinality(Requests) \in Nat
    BY <1>1, <1>4, <1>5, RequestsAreFinite, FS_CardinalityType
  <1> QED
    BY <1>2, <1>3, <1>4, <1>5, <1>6 DEF Bounded

(* Requests left, or went on with the value they had. *)
LEMMA Framed ==
  ASSUME NEW H, NEW HH, NEW P \in SUBSET Requests, NEW PP \in SUBSET P, NEW q, NEW qq,
         Fits(H, P, q),
         \A r \in PP : qq[r].id = q[r].id,
         HH \subseteq Targets(H, P, q)
  PROVE  Fits(HH, PP, qq)
  <1>1. Targets(HH, PP, qq) \in SUBSET Targets(H, P, q)
    BY DEF Targets
  <1>2. Creates(P, q) \in SUBSET Requests /\ Creates(PP, qq) \in SUBSET Creates(P, q)
    BY DEF Creates
  <1> QED
    BY <1>1, <1>2, FewerBounded DEF Fits

(* A request inserted the value it had looked up. *)
LEMMA Inserted ==
  ASSUME NEW i \in Ids, NEW r \in Requests, NEW P \in SUBSET Requests, NEW PP \in SUBSET (P \ {r}),
         NEW H \in SUBSET Ids, NEW HH \in SUBSET (H \cup {i}), NEW q, NEW qq,
         Fits(H, P, q), r \in P, q[r].id = None,
         \A s \in PP : qq[s].id = q[s].id
  PROVE  Fits(HH, PP, qq)
  <1>1. Targets(HH, PP, qq) \in SUBSET (Targets(H, P, q) \cup {i})
    BY DEF Targets
  <1>2. /\ Creates(P, q) \in SUBSET Requests /\ r \in Creates(P, q)
        /\ Creates(PP, qq) \in SUBSET (Creates(P, q) \ {r})
    BY DEF Creates
  <1> QED
    BY <1>1, <1>2, InsertedBounded DEF Fits

(* A request found that no customer but its own holds the value. *)
LEMMA Checked ==
  ASSUME NEW HH \in SUBSET Ids, NEW PP \in SUBSET Requests, NEW r \in PP, NEW qq,
         HH \subseteq {qq[r].id}
  PROVE  Fits(HH, PP, qq)
  <1> DEFINE C == Creates(PP, qq)
             U == {s \in PP : qq[s].id # None}
             target == [s \in Requests |-> qq[s].id]
  <1>1. C \cup U \subseteq Requests /\ C \cap U = {}
    BY DEF Creates
  <1>2. ASSUME NEW i \in Targets(HH, PP, qq) PROVE \E s \in U : target[s] = i
    <2>1. PICK s \in PP : qq[s].id = i /\ i \in Ids
      BY <1>2 DEF Targets
    <2> QED
      BY <2>1, NoneIsNoData
  <1>3. Targets(HH, PP, qq) \in SUBSET {target[s] : s \in U}
    BY <1>2
  <1> HIDE DEF C, U, target
  <1>4. Bounded(Targets(HH, PP, qq), C)
    BY <1>1, <1>3, RequestsBounded
  <1> QED
    BY <1>4 DEF Fits, C

-------------------------------------------------------------------------------
(* The statements. *)

(* A request ends or does something else, and the table gains no holder but  *)
(* the customer whose update had looked the values up.                       *)
LEMMA FrameStep ==
  ASSUME UInv, TypeOK', ActsOnCustomer', NEW r \in Requests,
         req'[r].pc \notin {"email", "write"},
         \A s \in Requests : s # r => req'[s] = req[s],
         \A i \in Ids : Live(i)' =>
             \/ /\ Live(i)
                /\ customer'[i].name = customer[i].name
                /\ customer'[i].email = customer[i].email
             \/ /\ req[r].pc = "write" /\ req[r].id = i
                /\ customer'[i].name = req[r].name
                /\ customer'[i].email = req[r].email
  PROVE  UInv'
  <1>1. ASSUME NEW n \in Names PROVE Fits(HoldersOfName(n), NamePending(n), req)'
    <2>1. NamePending(n) \in SUBSET Requests /\ NamePending(n)' \in SUBSET NamePending(n)
      BY DEF NamePending
    <2>2. \A s \in NamePending(n)' : req'[s].id = req[s].id
      BY DEF NamePending
    <2>3. HoldersOfName(n)' \subseteq Targets(HoldersOfName(n), NamePending(n), req)
      BY DEF HoldersOfName, Targets, NamePending, Live
    <2> QED
      BY <2>1, <2>2, <2>3, Framed DEF UInv, NamesFit
  <1>2. ASSUME NEW e \in Emails PROVE Fits(HoldersOfEmail(e), EmailPending(e), req)'
    <2>1. EmailPending(e) \in SUBSET Requests /\ EmailPending(e)' \in SUBSET EmailPending(e)
      BY DEF EmailPending
    <2>2. \A s \in EmailPending(e)' : req'[s].id = req[s].id
      BY DEF EmailPending
    <2>3. HoldersOfEmail(e)' \subseteq Targets(HoldersOfEmail(e), EmailPending(e), req)
      BY DEF HoldersOfEmail, Targets, EmailPending, Live
    <2> QED
      BY <2>1, <2>2, <2>3, Framed DEF UInv, EmailsFit
  <1> QED
    BY <1>1, <1>2 DEF UInv, NamesFit, EmailsFit

(* The name is looked up: from now on the request may write it. *)
LEMMA CheckNameStep ==
  ASSUME UInv, TypeOK', ActsOnCustomer', NEW r \in Requests, CheckName(r),
         ~NameTaken(req[r].name, req[r].id)
  PROVE  UInv'
  <1>1. /\ req'[r] = Saving("email", req[r].id, req[r].name, req[r].email)
        /\ \A s \in Requests : s # r => req'[s] = req[s]
        /\ customer' = customer /\ req[r].pc = "name"
    BY DEF CheckName, Become, At, UInv, TypeOK
  <1>2. /\ req'[r].pc = "email" /\ req'[r].id = req[r].id
        /\ req'[r].name = req[r].name /\ req'[r].email = req[r].email
    BY <1>1 DEF Saving
  <1>3. ASSUME NEW n \in Names PROVE Fits(HoldersOfName(n), NamePending(n), req)'
    <2>1. NamePending(n) \in SUBSET Requests /\ NamePending(n)' \in SUBSET Requests
      BY DEF NamePending
    <2>2. HoldersOfName(n)' = HoldersOfName(n) /\ HoldersOfName(n) \in SUBSET Ids
      BY <1>1 DEF HoldersOfName, Live
    <2>3. CASE n = req[r].name
      <3>1. r \in NamePending(n)'
        BY <1>2, <2>3 DEF NamePending
      <3>2. HoldersOfName(n) \subseteq {req'[r].id}
        BY <1>2, <2>3 DEF HoldersOfName, NameTaken
      <3> QED
        BY <2>1, <2>2, <3>1, <3>2, Checked
    <2>4. CASE n # req[r].name
      <3>1. /\ NamePending(n)' \in SUBSET NamePending(n)
            /\ \A s \in NamePending(n)' : req'[s].id = req[s].id
        BY <1>1, <1>2, <2>4 DEF NamePending
      <3>2. HoldersOfName(n)' \subseteq Targets(HoldersOfName(n), NamePending(n), req)
        BY <2>2 DEF Targets
      <3> QED
        BY <2>1, <3>1, <3>2, Framed DEF UInv, NamesFit
    <2> QED
      BY <2>3, <2>4
  <1>4. ASSUME NEW e \in Emails PROVE Fits(HoldersOfEmail(e), EmailPending(e), req)'
    <2>1. /\ EmailPending(e) \in SUBSET Requests /\ EmailPending(e)' \in SUBSET EmailPending(e)
          /\ \A s \in EmailPending(e)' : req'[s].id = req[s].id
      BY <1>1, <1>2 DEF EmailPending
    <2>2. HoldersOfEmail(e)' \subseteq Targets(HoldersOfEmail(e), EmailPending(e), req)
      BY <1>1 DEF HoldersOfEmail, Targets, Live
    <2> QED
      BY <2>1, <2>2, Framed DEF UInv, EmailsFit
  <1> QED
    BY <1>3, <1>4 DEF UInv, NamesFit, EmailsFit

(* The email is looked up, if there is one. *)
LEMMA CheckEmailStep ==
  ASSUME UInv, TypeOK', ActsOnCustomer', NEW r \in Requests, CheckEmail(r),
         ~(req[r].email # None /\ EmailTaken(req[r].email, req[r].id))
  PROVE  UInv'
  <1>1. /\ req'[r] = Saving("write", req[r].id, req[r].name, req[r].email)
        /\ \A s \in Requests : s # r => req'[s] = req[s]
        /\ customer' = customer /\ req[r].pc = "email"
    BY DEF CheckEmail, Become, At, UInv, TypeOK
  <1>2. /\ req'[r].pc = "write" /\ req'[r].id = req[r].id
        /\ req'[r].name = req[r].name /\ req'[r].email = req[r].email
    BY <1>1 DEF Saving
  <1>3. ASSUME NEW n \in Names PROVE Fits(HoldersOfName(n), NamePending(n), req)'
    <2>1. /\ NamePending(n) \in SUBSET Requests /\ NamePending(n)' \in SUBSET NamePending(n)
          /\ \A s \in NamePending(n)' : req'[s].id = req[s].id
      BY <1>1, <1>2 DEF NamePending
    <2>2. HoldersOfName(n)' \subseteq Targets(HoldersOfName(n), NamePending(n), req)
      BY <1>1 DEF HoldersOfName, Targets, Live
    <2> QED
      BY <2>1, <2>2, Framed DEF UInv, NamesFit
  <1>4. ASSUME NEW e \in Emails PROVE Fits(HoldersOfEmail(e), EmailPending(e), req)'
    <2>1. EmailPending(e) \in SUBSET Requests /\ EmailPending(e)' \in SUBSET Requests
      BY DEF EmailPending
    <2>2. HoldersOfEmail(e)' = HoldersOfEmail(e) /\ HoldersOfEmail(e) \in SUBSET Ids
      BY <1>1 DEF HoldersOfEmail, Live
    <2>3. CASE e = req[r].email
      <3>1. r \in EmailPending(e)'
        BY <1>2, <2>3 DEF EmailPending
      <3>2. HoldersOfEmail(e) \subseteq {req'[r].id}
        BY <1>2, <2>3, NoneIsNoData DEF HoldersOfEmail, EmailTaken
      <3> QED
        BY <2>1, <2>2, <3>1, <3>2, Checked
    <2>4. CASE e # req[r].email
      <3>1. /\ EmailPending(e)' \in SUBSET EmailPending(e)
            /\ \A s \in EmailPending(e)' : req'[s].id = req[s].id
        BY <1>1, <1>2, <2>4 DEF EmailPending
      <3>2. HoldersOfEmail(e)' \subseteq Targets(HoldersOfEmail(e), EmailPending(e), req)
        BY <2>2 DEF Targets
      <3> QED
        BY <2>1, <3>1, <3>2, Framed DEF UInv, EmailsFit
    <2> QED
      BY <2>3, <2>4
  <1> QED
    BY <1>3, <1>4 DEF UInv, NamesFit, EmailsFit

(* A new row takes the place of the request that inserted it. *)
LEMMA InsertStep ==
  ASSUME UInv, TypeOK', ActsOnCustomer', NEW r \in Requests, NEW i \in Ids, Insert(r, i)
  PROVE  UInv'
  <1>1. /\ req'[r].pc = "idle"
        /\ \A s \in Requests : s # r => req'[s] = req[s]
        /\ req[r].pc = "write" /\ req[r].id = None
        /\ ~Live(i)
        /\ customer'[i].name = req[r].name /\ customer'[i].email = req[r].email
        /\ \A j \in Ids : j # i => customer'[j] = customer[j]
    BY DEF Insert, Become, Idle, At, Live, UInv, TypeOK
  <1>2. ASSUME NEW n \in Names PROVE Fits(HoldersOfName(n), NamePending(n), req)'
    <2>1. /\ NamePending(n) \in SUBSET Requests /\ NamePending(n)' \in SUBSET (NamePending(n) \ {r})
          /\ \A s \in NamePending(n)' : req'[s].id = req[s].id
      BY <1>1 DEF NamePending
    <2>2. CASE n = req[r].name
      <3>1. /\ r \in NamePending(n) /\ HoldersOfName(n) \in SUBSET Ids
            /\ HoldersOfName(n)' \in SUBSET (HoldersOfName(n) \cup {i})
        BY <1>1, <2>2 DEF NamePending, HoldersOfName, Live
      <3> QED
        BY <1>1, <2>1, <3>1, Inserted DEF UInv, NamesFit
    <2>3. CASE n # req[r].name
      <3>1. HoldersOfName(n)' \subseteq Targets(HoldersOfName(n), NamePending(n), req)
        BY <1>1, <2>3 DEF HoldersOfName, Targets, Live
      <3>2. NamePending(n)' \in SUBSET NamePending(n)
        BY <2>1
      <3> QED
        BY <2>1, <3>1, <3>2, Framed DEF UInv, NamesFit
    <2> QED
      BY <2>2, <2>3
  <1>3. ASSUME NEW e \in Emails PROVE Fits(HoldersOfEmail(e), EmailPending(e), req)'
    <2>1. /\ EmailPending(e) \in SUBSET Requests /\ EmailPending(e)' \in SUBSET (EmailPending(e) \ {r})
          /\ \A s \in EmailPending(e)' : req'[s].id = req[s].id
      BY <1>1 DEF EmailPending
    <2>2. CASE e = req[r].email
      <3>1. /\ r \in EmailPending(e) /\ HoldersOfEmail(e) \in SUBSET Ids
            /\ HoldersOfEmail(e)' \in SUBSET (HoldersOfEmail(e) \cup {i})
        BY <1>1, <2>2 DEF EmailPending, HoldersOfEmail, Live
      <3> QED
        BY <1>1, <2>1, <3>1, Inserted DEF UInv, EmailsFit
    <2>3. CASE e # req[r].email
      <3>1. HoldersOfEmail(e)' \subseteq Targets(HoldersOfEmail(e), EmailPending(e), req)
        BY <1>1, <2>3 DEF HoldersOfEmail, Targets, Live
      <3>2. EmailPending(e)' \in SUBSET EmailPending(e)
        BY <2>1
      <3> QED
        BY <2>1, <3>1, <3>2, Framed DEF UInv, EmailsFit
    <2> QED
      BY <2>2, <2>3
  <1> QED
    BY <1>2, <1>3 DEF UInv, NamesFit, EmailsFit

(* The empty table: nobody holds or pends anything. *)
LEMMA InitUnique == Init => UInv
  <1> SUFFICES ASSUME Init PROVE UInv
    OBVIOUS
  <1>1. ASSUME NEW H, H = {}, NEW P, P = {} PROVE Fits(H, P, req)
    <2>1. Targets(H, P, req) = {} /\ Creates(P, req) = {}
      BY <1>1 DEF Targets, Creates
    <2>2. Bounded({}, {})
      BY RequestsAreFinite, FS_EmptySet, FS_CardinalityType DEF Bounded
    <2> QED
      BY <2>1, <2>2 DEF Fits
  <1>2. \A n \in Names : HoldersOfName(n) = {} /\ NamePending(n) = {}
    BY DEF Init, HoldersOfName, NamePending, Live, NoRow, Idle
  <1>3. \A e \in Emails : HoldersOfEmail(e) = {} /\ EmailPending(e) = {}
    BY DEF Init, HoldersOfEmail, EmailPending, Live, NoRow, Idle
  <1> QED
    BY <1>1, <1>2, <1>3, InitTypes DEF UInv, NamesFit, EmailsFit

(* Every statement keeps the count. *)
LEMMA StepUnique == UInv /\ [Next]_vars => UInv'
  <1> SUFFICES ASSUME UInv, [Next]_vars PROVE UInv'
    OBVIOUS
  <1>0. TypeOK' /\ ActsOnCustomer'
    BY StepTypes DEF UInv
  <1>1. CASE UNCHANGED vars
    BY <1>0, <1>1 DEF vars, UInv, NamesFit, EmailsFit, HoldersOfName, HoldersOfEmail, NamePending,
                      EmailPending, Live
  <1>2. ASSUME NEW r \in Requests, NEW q, Become(r, q), q.pc \notin {"email", "write"}, customer' = customer
        PROVE  UInv'
    <2>1. req'[r] = q /\ \A s \in Requests : s # r => req'[s] = req[s]
      BY <1>2 DEF Become, UInv, TypeOK
    <2> QED
      BY <1>0, <1>2, <2>1, FrameStep DEF Live
  <1>3. ASSUME NEW r \in Requests, NEW n \in Names, NEW e \in Emails \cup {None},
               StartCreate(r, n, e) \/ \E i \in Ids : StartUpdate(r, i, n, e)
        PROVE  UInv'
    <2>1. PICK i \in Ids \cup {None} : Become(r, Saving("name", i, n, e))
      BY <1>3 DEF StartCreate, StartUpdate
    <2>2. Saving("name", i, n, e).pc = "name" /\ customer' = customer
      BY <1>3 DEF StartCreate, StartUpdate, Saving
    <2> QED
      BY <1>2, <2>1, <2>2
  <1>4. ASSUME NEW r \in Requests, CheckName(r) PROVE UInv'
    <2>1. CASE NameTaken(req[r].name, req[r].id)
      BY <1>2, <1>4, <2>1 DEF CheckName, Idle
    <2>2. CASE ~NameTaken(req[r].name, req[r].id)
      BY <1>0, <1>4, <2>2, CheckNameStep
    <2> QED
      BY <2>1, <2>2
  <1>5. ASSUME NEW r \in Requests, CheckEmail(r) PROVE UInv'
    <2>1. CASE req[r].email # None /\ EmailTaken(req[r].email, req[r].id)
      BY <1>2, <1>5, <2>1 DEF CheckEmail, Idle
    <2>2. CASE ~(req[r].email # None /\ EmailTaken(req[r].email, req[r].id))
      BY <1>0, <1>5, <2>2, CheckEmailStep
    <2> QED
      BY <2>1, <2>2
  <1>6. ASSUME NEW r \in Requests, NEW i \in Ids, Insert(r, i) PROVE UInv'
    BY <1>0, <1>6, InsertStep
  <1>7. ASSUME NEW r \in Requests, Update(r) PROVE UInv'
    <2>1. /\ req'[r].pc = "idle" /\ \A s \in Requests : s # r => req'[s] = req[s]
          /\ req[r].pc = "write"
      BY <1>7 DEF Update, Become, Idle, At, UInv, TypeOK
    <2>2. /\ \A j \in Ids : j # req[r].id => customer'[j] = customer[j]
          /\ req[r].id \in Ids => /\ customer'[req[r].id].name = req[r].name
                                 /\ customer'[req[r].id].email = req[r].email
      BY <1>7 DEF Update, UInv, TypeOK
    <2> QED
      BY <1>0, <2>1, <2>2, FrameStep DEF Live
  <1>8. ASSUME NEW r \in Requests, NEW i \in Ids, StartDelete(r, i) \/ StartUpload(r, i) \/ StartRemove(r, i)
        PROVE  UInv'
    <2>1. PICK pc \in {"softDelete", "store", "clear"} : ReadAvatar(r, i, pc)
      BY <1>8 DEF StartDelete, StartUpload, StartRemove
    <2> QED
      BY <1>2, <2>1 DEF ReadAvatar, Changing
  <1>9. ASSUME NEW r \in Requests, SoftDelete(r) \/ PointToFile(r) \/ ClearAvatar(r) PROVE UInv'
    <2>1. req[r].id \in Ids
      BY <1>9 DEF SoftDelete, PointToFile, ClearAvatar, At, UInv, ActsOnCustomer
    <2>2. /\ req'[r].pc \in {"idle", "unlink"}
          /\ \A s \in Requests : s # r => req'[s] = req[s]
      BY <1>9 DEF SoftDelete, PointToFile, ClearAvatar, UnlinkPrevious, Become, Idle, Changing, UInv, TypeOK
    <2>3. \A j \in Ids : Live(j)' => /\ Live(j)
                                     /\ customer'[j].name = customer[j].name
                                     /\ customer'[j].email = customer[j].email
      BY <1>9, <2>1 DEF SoftDelete, PointToFile, ClearAvatar, WithState, WithAvatar, Live, UInv, TypeOK
    <2> QED
      BY <1>0, <2>2, <2>3, FrameStep
  <1>10. ASSUME NEW r \in Requests, NEW f \in Files, StoreFile(r, f) PROVE UInv'
    BY <1>2, <1>10 DEF StoreFile, Changing
  <1>11. ASSUME NEW r \in Requests, RefuseAvatar(r) \/ Unlink(r) \/ Abort(r) PROVE UInv'
    BY <1>2, <1>11 DEF RefuseAvatar, Unlink, Abort, Idle
  <1>12. ASSUME NEW r \in Requests,
                \/ \E n \in Names, e \in Emails \cup {None} : StartCreate(r, n, e)
                \/ \E i \in Ids, n \in Names, e \in Emails \cup {None} : StartUpdate(r, i, n, e)
                \/ \E i \in Ids : Insert(r, i)
                \/ \E i \in Ids : StartDelete(r, i) \/ StartUpload(r, i) \/ StartRemove(r, i) \/ NotFound(r, i)
                \/ \E f \in Files : StoreFile(r, f)
         PROVE  UInv'
    BY <1>1, <1>3, <1>6, <1>8, <1>10, <1>12 DEF NotFound
  <1> QED
    BY <1>1, <1>4, <1>5, <1>7, <1>9, <1>11, <1>12 DEF Next

(* What is counted beside the holders does not lessen them. *)
LEMMA HoldersBounded ==
  ASSUME NEW H, NEW P \in SUBSET Requests, NEW q, Fits(H, P, q)
  PROVE  Cardinality(H) <= Cardinality(Requests)
  <1>1. IsFiniteSet(Targets(H, P, q)) /\ H \in SUBSET Targets(H, P, q)
    BY DEF Fits, Bounded, Targets
  <1>2. IsFiniteSet(H) /\ Cardinality(H) <= Cardinality(Targets(H, P, q))
    BY <1>1, FS_Subset
  <1>3. Creates(P, q) \in SUBSET Requests
    BY DEF Creates
  <1>4. IsFiniteSet(Creates(P, q))
    BY <1>3, RequestsAreFinite, FS_Subset
  <1>5. /\ Cardinality(H) \in Nat /\ Cardinality(Targets(H, P, q)) \in Nat
        /\ Cardinality(Creates(P, q)) \in Nat /\ Cardinality(Requests) \in Nat
    BY <1>1, <1>2, <1>4, RequestsAreFinite, FS_CardinalityType
  <1>6. Cardinality(Targets(H, P, q)) + Cardinality(Creates(P, q)) <= Cardinality(Requests)
    BY DEF Fits, Bounded
  <1> QED
    BY <1>2, <1>5, <1>6

(* Although nothing but two SELECTs guards them, a name and an email never    *)
(* have more live holders than requests overlap, for any number of either.    *)
THEOREM UniqueUpToOverlap == Spec => []DuplicatesNeedOverlap
  <1>1. UInv => DuplicatesNeedOverlap
    <2> SUFFICES ASSUME UInv PROVE DuplicatesNeedOverlap
      OBVIOUS
    <2>1. ASSUME NEW n \in Names PROVE Cardinality(HoldersOfName(n)) <= Cardinality(Requests)
      <3>1. NamePending(n) \in SUBSET Requests
        BY DEF NamePending
      <3> QED
        BY <3>1, HoldersBounded DEF UInv, NamesFit
    <2>2. ASSUME NEW e \in Emails PROVE Cardinality(HoldersOfEmail(e)) <= Cardinality(Requests)
      <3>1. EmailPending(e) \in SUBSET Requests
        BY DEF EmailPending
      <3> QED
        BY <3>1, HoldersBounded DEF UInv, EmailsFit
    <2> QED
      BY <2>1, <2>2 DEF DuplicatesNeedOverlap
  <1> QED
    BY <1>1, InitUnique, StepUnique, PTL DEF Spec
===============================================================================
