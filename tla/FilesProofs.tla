----------------------------- MODULE FilesProofs -----------------------------
(***************************************************************************)
(* Proofs about Files for any uploads, batches, deletions and names,       *)
(* whatever fails.                                                         *)
(*                                                                         *)
(* The properties speak of files whose uploads are over; the invariant     *)
(* follows an upload from its name to its end.  As long as the name is not *)
(* shared, one upload alone is at work on it (Exclusive), no row has the   *)
(* name and no deletion has chosen it before the upload has its row        *)
(* (YoungAlone), and from then on row and object are those of the upload   *)
(* and nothing deletes them unless it is doomed (RowIsKept).               *)
(***************************************************************************)
EXTENDS Files, TLAPS

(* How an upload goes on.  It is young before it has a row, and has one from *)
(* client.update on; it holds its name until its file may be gone.           *)
Young(u) == stage[u] \in {"named", "storing", "stored", "found"}

Written(u) == stage[u] \in {"storing", "stored", "found"}

Deletes(j, n) == stage[j] \in {"object", "row"} /\ target[j] = n

GoesOn(u, s) == stage[u] \in {"object", "row"} /\ then[u] = s

HasRow(u) == At(u, "saved") \/ GoesOn(u, "saved")

Holds(u) == AtWork(u) \/ (At(u, "saved") /\ u \notin doomed)

Sole(u) == name[u] \notin shared

-----------------------------------------------------------------------------
(* The steps of a job and the names it has with them. *)
Progress ==
    /\ \A u \in Uploads :
        /\ At(u, "none") => name[u] = None /\ existing[u] = None
        /\ Young(u) \/ HasRow(u) \/ GoesOn(u, "failed") \/ GoesOn(u, "undone")
               => name[u] \in Names
        /\ Young(u) \/ At(u, "none") => target[u] = None
        /\ GoesOn(u, "saved") => target[u] = existing[u] /\ target[u] \in Names
        /\ GoesOn(u, "failed") \/ GoesOn(u, "undone") => target[u] = name[u]
        /\ stage[u] \in {"object", "row"} => then[u] \in {"saved", "failed", "undone"}
        /\ stage[u] # "ended"
    /\ \A d \in Deletions :
        /\ stage[d] \in {"none", "object", "row", "ended"}
        /\ At(d, "none") => target[d] = None
        /\ stage[d] \in {"object", "row"} => target[d] \in Names /\ then[d] = "ended"

(* Contents and rows are under the name of their upload. *)
UnderItsName ==
    \A n \in Names :
        /\ object[n] # None => name[object[n]] = n /\ stage[object[n]] \notin {"none", "named"}
        /\ row[n] # None => name[row[n]] = n /\ stage[row[n]] # "none" /\ ~Young(row[n])

(* No two uploads hold a name that is not shared.                            *)
Exclusive ==
    \A u, v \in Uploads :
        name[u] = name[v] /\ name[u] # None /\ Sole(u) /\ Holds(u) /\ Holds(v) => u = v

(* Before it has a row, an upload alone knows the name.                      *)
YoungAlone ==
    \A u \in Uploads :
        Young(u) /\ Sole(u) =>
            /\ row[name[u]] = None
            /\ Written(u) => object[name[u]] = u
            /\ \A j \in Jobs : AtWork(j) =>
                  target[j] # name[u] /\ (j \in Uploads => existing[j] # name[u])

(* The file of an upload that has a row is complete until it is doomed.      *)
RowIsKept ==
    \A u \in Uploads :
        HasRow(u) /\ Sole(u) /\ u \notin doomed =>
            Kept(u) /\ \A j \in Jobs : ~Deletes(j, name[u])

(* The same about the field that refers to it.                               *)
FieldIsKept ==
    \A u \in Single :
        HasRow(u) /\ Sole(u) /\ u \notin doomed \cup stranded => field = u

(* A row is deleted only when the object is gone.                            *)
ObjectFirst ==
    \A j \in Jobs :
        At(j, "row") /\ target[j] \notin shared \cup botched => object[target[j]] = None

(* An object without a row will get one, or is about to be deleted.          *)
OrphanIsYoung ==
    \A n \in Names :
        object[n] # None /\ row[n] = None /\ n \notin botched \cup shared
            => \E u \in Uploads : name[u] = n /\ (Written(u) \/ (At(u, "object") /\ target[u] = n))

(* An upload that failed or was undone leaves neither row nor object.        *)
LeavesNothing ==
    \A u \in Uploads : name[u] # None /\ name[u] \notin botched =>
        /\ stage[u] \in {"failed", "undone"} => row[name[u]] # u /\ object[name[u]] # u
        /\ At(u, "row") /\ then[u] # "saved" => object[name[u]] # u

(* The inductive invariant. *)
IInv == TypeOK /\ Progress /\ UnderItsName /\ Exclusive /\ YoungAlone /\ RowIsKept /\ FieldIsKept
        /\ ObjectFirst /\ OrphanIsYoung /\ LeavesNothing

-----------------------------------------------------------------------------
(* Nothing is stored and no job has begun.                                   *)
LEMMA InitInv == Init => IInv
<1> SUFFICES ASSUME Init PROVE IInv
  OBVIOUS
<1> USE FilesAssumption DEF Init, Jobs, At
<1>1. TypeOK
  BY DEF TypeOK, Stages, Ends
<1>2. Progress
  BY DEF Progress, Young, HasRow, GoesOn
<1>3. UnderItsName /\ ObjectFirst /\ OrphanIsYoung /\ LeavesNothing
  BY DEF UnderItsName, ObjectFirst, OrphanIsYoung, LeavesNothing
<1>4. Exclusive /\ YoungAlone
  BY DEF Exclusive, YoungAlone, Young
<1>5. RowIsKept /\ FieldIsKept
  BY DEF RowIsKept, FieldIsKept, HasRow, GoesOn
<1> QED
  BY <1>1, <1>2, <1>3, <1>4, <1>5 DEF IInv

(* What a job is deleting has a name.                                        *)
LEMMA TargetIsName ==
    ASSUME Progress, NEW j \in Jobs, stage[j] \in {"object", "row"}
    PROVE  target[j] \in Names
BY FilesAssumption DEF Progress, GoesOn, HasRow, Jobs, At

(* An upload that is to get a row has a name.                                *)
LEMMA YoungHasName ==
    ASSUME Progress, NEW u \in Uploads, Young(u) PROVE name[u] \in Names
BY DEF Progress

(* Every step keeps the types; the rows keep their names apart because a    *)
(* row is under the name of its upload.                                      *)
LEMMA TypeStep == ASSUME IInv, Next PROVE TypeOK'
<1> USE FilesAssumption DEF Jobs, At, Go, Stages, Ends, pastVars
<1>1. TypeOK /\ Progress /\ UnderItsName
  BY DEF IInv
<1>2. ASSUME NEW u \in Uploads, Upload(u) PROVE TypeOK'
  <2> USE <1>1
  <2>1. CASE Named(u)
    BY <2>1 DEF Named, TypeOK
  <2>2. CASE Refused(u)
    BY <2>2 DEF Refused, TypeOK
  <2>3. CASE Storing(u)
    BY <2>3 DEF Storing, TypeOK
  <2>4. CASE Stored(u)
    BY <2>4 DEF Stored, TypeOK
  <2>5. CASE StoreFails(u)
    BY <2>5 DEF StoreFails, TypeOK, Progress, Young
  <2>6. CASE TooLarge(u)
    BY <2>6 DEF TooLarge, TypeOK, Progress, Young, ObjectDeleted, ObjectRemains
  <2>7. CASE FindExisting(u)
    <3>1. NameOfField \in Names \cup {None}
      BY DEF NameOfField, TypeOK
    <3> QED
      BY <2>7, <3>1 DEF FindExisting, TypeOK
  <2>8. CASE Updated(u)
    BY <2>8 DEF Updated, TypeOK, Progress, UnderItsName, Young, Free, Replaced, DeleteSafe
  <2>9. CASE UpdateFails(u)
    BY <2>9 DEF UpdateFails, TypeOK, DeleteSafe
  <2> QED
    BY <1>2, <2>1, <2>2, <2>3, <2>4, <2>5, <2>6, <2>7, <2>8, <2>9 DEF Upload
<1>3. ASSUME NEW d \in Deletions, DeleteFile(d) PROVE TypeOK'
  BY <1>1, <1>3 DEF DeleteFile, TypeOK, DeleteSafe
<1>4. ASSUME NEW j \in Jobs, DeleteObject(j) PROVE TypeOK'
  <2>1. target[j] \in Names
    BY <1>1, <1>4, TargetIsName DEF DeleteObject
  <2>2. object' \in [Names -> Uploads \cup {None}] /\ botched' \subseteq Names
    BY <1>1, <1>4, <2>1 DEF DeleteObject, TypeOK, ObjectDeleted, ObjectRemains
  <2>3. stage' \in [Jobs -> Stages]
    BY <1>1, <1>4 DEF DeleteObject, TypeOK
  <2> QED
    BY <1>1, <1>4, <2>2, <2>3 DEF DeleteObject, TypeOK
<1>5. ASSUME NEW j \in Jobs, DeleteRow(j) PROVE TypeOK'
  <2>1. target[j] \in Names
    BY <1>1, <1>5, TargetIsName DEF DeleteRow
  <2>2. row' \in [Names -> Uploads \cup {None}] /\ botched' \subseteq Names
    BY <1>1, <1>5, <2>1 DEF DeleteRow, TypeOK
  <2>3. \A m, n \in Names : row'[m] = row'[n] => m = n \/ row'[m] = None
    BY <1>1, <1>5, <2>1 DEF DeleteRow, TypeOK
  <2>4. field' # None => field' \in Single /\ \E n \in Names : row'[n] = field'
    BY <1>1, <1>5, <2>1 DEF DeleteRow, TypeOK
  <2>5. stage' \in [Jobs -> Stages]
    BY <1>1, <1>5 DEF DeleteRow, TypeOK
  <2> QED
    BY <1>1, <1>5, <2>2, <2>3, <2>4, <2>5 DEF DeleteRow, TypeOK
<1>6. ASSUME NEW B \in Batches, Undo(B) PROVE TypeOK'
  BY <1>1, <1>6 DEF Undo, TypeOK
<1> QED
  BY <1>2, <1>3, <1>4, <1>5, <1>6 DEF Next

(* An upload goes on along its steps.  Every action changes one job, but for *)
(* Undo.                                                                     *)
LEMMA ProgressStep == ASSUME IInv, Next PROVE Progress'
<1> USE FilesAssumption DEF Jobs, At, Go, Ends, pastVars, Young, HasRow, GoesOn
<1>1. TypeOK /\ Progress
  BY DEF IInv
<1>2. ASSUME NEW u \in Uploads, Upload(u) PROVE Progress'
  <2> USE <1>1 DEF TypeOK, Progress
  <2>1. CASE Named(u)
    BY <2>1 DEF Named
  <2>2. CASE Refused(u)
    BY <2>2 DEF Refused
  <2>3. CASE Storing(u)
    BY <2>3 DEF Storing
  <2>4. CASE Stored(u)
    BY <2>4 DEF Stored
  <2>5. CASE StoreFails(u)
    BY <2>5 DEF StoreFails
  <2>6. CASE TooLarge(u)
    BY <2>6 DEF TooLarge
  <2>7. CASE FindExisting(u)
    BY <2>7 DEF FindExisting
  <2>8. CASE Updated(u)
    BY <2>8 DEF Updated, Replaced, DeleteSafe
  <2>9. CASE UpdateFails(u)
    BY <2>9 DEF UpdateFails, DeleteSafe
  <2> QED
    BY <1>2, <2>1, <2>2, <2>3, <2>4, <2>5, <2>6, <2>7, <2>8, <2>9 DEF Upload
<1>3. ASSUME NEW d \in Deletions, DeleteFile(d) PROVE Progress'
  BY <1>1, <1>3 DEF DeleteFile, TypeOK, DeleteSafe, Progress
<1>4. ASSUME NEW j \in Jobs, DeleteObject(j) PROVE Progress'
  BY <1>1, <1>4 DEF DeleteObject, TypeOK, Progress
<1>5. ASSUME NEW j \in Jobs, DeleteRow(j) PROVE Progress'
  BY <1>1, <1>5 DEF DeleteRow, TypeOK, Progress
<1>6. ASSUME NEW B \in Batches, Undo(B) PROVE Progress'
  BY <1>1, <1>6 DEF Undo, TypeOK, Progress
<1> QED
  BY <1>2, <1>3, <1>4, <1>5, <1>6 DEF Next

(* An object and a row are written under the name their upload has.          *)
LEMMA UnderItsNameStep == ASSUME IInv, Next PROVE UnderItsName'
<1> USE FilesAssumption DEF Jobs, At, Go, Ends, pastVars, Young
<1>1. TypeOK /\ Progress /\ UnderItsName
  BY DEF IInv
<1>2. ASSUME NEW u \in Uploads, Upload(u) PROVE UnderItsName'
  <2> USE <1>1, YoungHasName DEF TypeOK, UnderItsName
  <2>1. CASE Named(u)
    BY <2>1 DEF Named
  <2>2. CASE Refused(u)
    BY <2>2 DEF Refused
  <2>3. CASE Storing(u)
    BY <2>3 DEF Storing
  <2>4. CASE Stored(u)
    BY <2>4 DEF Stored
  <2>5. CASE StoreFails(u)
    BY <2>5 DEF StoreFails
  <2>6. CASE TooLarge(u)
    BY <2>6 DEF TooLarge, ObjectDeleted, ObjectRemains
  <2>7. CASE FindExisting(u)
    BY <2>7 DEF FindExisting
  <2>8. CASE Updated(u)
    BY <2>8 DEF Updated, Replaced, DeleteSafe
  <2>9. CASE UpdateFails(u)
    BY <2>9 DEF UpdateFails, DeleteSafe
  <2> QED
    BY <1>2, <2>1, <2>2, <2>3, <2>4, <2>5, <2>6, <2>7, <2>8, <2>9 DEF Upload
<1>3. ASSUME NEW d \in Deletions, DeleteFile(d) PROVE UnderItsName'
  BY <1>1, <1>3 DEF DeleteFile, TypeOK, DeleteSafe, UnderItsName
<1>4. ASSUME NEW j \in Jobs, DeleteObject(j) PROVE UnderItsName'
  <2>1. target[j] \in Names
    BY <1>1, <1>4, TargetIsName DEF DeleteObject
  <2>2. stage[j] = "object" /\ stage' \in [Jobs -> Stages]
    BY <1>1, <1>4, TypeStep DEF DeleteObject, IInv, TypeOK
  <2>3. stage'[j] \in (Ends \cup {"row"}) \ {"none"}
    BY <1>1, <1>4 DEF DeleteObject, Progress, TypeOK
  <2>4. \A k \in Jobs : k # j => stage'[k] = stage[k]
    BY <1>1, <1>4 DEF DeleteObject, TypeOK
  <2> QED
    BY <1>1, <1>4, <2>1, <2>2, <2>3, <2>4 DEF DeleteObject, TypeOK, UnderItsName, ObjectDeleted, ObjectRemains
<1>5. ASSUME NEW j \in Jobs, DeleteRow(j) PROVE UnderItsName'
  <2>1. target[j] \in Names
    BY <1>1, <1>5, TargetIsName DEF DeleteRow
  <2>2. stage'[j] \in Ends \ {"none"} /\ \A k \in Jobs : k # j => stage'[k] = stage[k]
    BY <1>1, <1>5 DEF DeleteRow, Progress, TypeOK
  <2> QED
    BY <1>1, <1>5, <2>1, <2>2 DEF DeleteRow, TypeOK, UnderItsName
<1>6. ASSUME NEW B \in Batches, Undo(B) PROVE UnderItsName'
  BY <1>1, <1>6 DEF Undo, TypeOK, UnderItsName
<1> QED
  BY <1>2, <1>3, <1>4, <1>5, <1>6 DEF Next

-----------------------------------------------------------------------------
(* What a step does to any job and any history.                              *)
(* The histories only grow.                                                  *)
LEMMA Grows ==
    ASSUME TypeOK, Next
    PROVE  /\ doomed \subseteq doomed' /\ stranded \subseteq stranded'
           /\ shared \subseteq shared' /\ botched \subseteq botched'
<1> USE FilesAssumption DEF Jobs, pastVars
<1>1. ASSUME NEW u \in Uploads, Upload(u)
      PROVE  /\ doomed \subseteq doomed' /\ stranded \subseteq stranded'
             /\ shared \subseteq shared' /\ botched \subseteq botched'
  BY <1>1 DEF Upload, Named, Refused, Storing, Stored, StoreFails, TooLarge, ObjectDeleted,
              ObjectRemains, FindExisting, Updated, UpdateFails
<1> QED
  BY <1>1 DEF Next, DeleteFile, DeleteObject, ObjectDeleted, ObjectRemains, DeleteRow, Undo

(* An upload gets its name once.                                             *)
LEMMA NameStays ==
    ASSUME TypeOK, Next, NEW u \in Uploads, ~Named(u) PROVE name'[u] = name[u]
<1> USE FilesAssumption DEF Jobs, pastVars, TypeOK
<1>1. ASSUME NEW v \in Uploads, Upload(v) PROVE name'[u] = name[u]
  BY <1>1 DEF Upload, Named, Refused, Storing, Stored, StoreFails, TooLarge,
              FindExisting, Updated, UpdateFails
<1> QED
  BY <1>1 DEF Next, DeleteFile, DeleteObject, DeleteRow, Undo

(* A job that is over stays so, but for what its batch undoes.               *)
LEMMA EndStays ==
    ASSUME TypeOK, Next, NEW j \in Jobs, stage[j] \in Ends \ {"none"}
    PROVE  \/ stage'[j] = stage[j]
           \/ \E B \in Batches : Undo(B) /\ j \in B /\ At(j, "saved")
<1> USE FilesAssumption DEF Jobs, At, Go, Ends, TypeOK
<1>1. ASSUME NEW v \in Uploads, Upload(v) PROVE stage'[j] = stage[j]
  BY <1>1 DEF Upload, Named, Refused, Storing, Stored, StoreFails, TooLarge,
              FindExisting, Updated, UpdateFails, DeleteSafe
<1>2. ASSUME NEW d \in Deletions, DeleteFile(d) PROVE stage'[j] = stage[j]
  BY <1>2 DEF DeleteFile, DeleteSafe
<1>3. ASSUME NEW k \in Jobs, DeleteObject(k) \/ DeleteRow(k) PROVE stage'[j] = stage[j]
  BY <1>3 DEF DeleteObject, DeleteRow
<1>4. ASSUME NEW B \in Batches, Undo(B)
      PROVE  stage'[j] = stage[j] \/ (j \in B /\ At(j, "saved"))
  BY <1>4 DEF Undo
<1> QED
  BY <1>1, <1>2, <1>3, <1>4 DEF Next

(* An upload belongs to one call of saveFiles.                               *)
LEMMA OneBatch ==
    ASSUME NEW B \in Batches, NEW C \in Batches, NEW u \in B, u \in C PROVE B = C
<1>1. u \in Uploads
  BY FilesAssumption
<1>2. PICK D \in Batches : {E \in Batches : u \in E} = {D}
  BY <1>1, FilesAssumption
<1> QED
  BY <1>2

(* No job starts to work again when it is over.                              *)
LEMMA WorkStarts ==
    ASSUME TypeOK, Next, NEW j \in Jobs, AtWork(j)' PROVE AtWork(j) \/ At(j, "none")
<1> SUFFICES ASSUME stage[j] \in Ends \ {"none"}, ~AtWork(j) PROVE FALSE
  BY DEF AtWork, At
<1>1. \A B \in Batches : j \in B /\ At(j, "saved") => \A v \in B : At(v, "saved")
  BY DEF AtWork
<1>2. \A B \in Batches : j \in B /\ At(j, "saved") => ~Undo(B)
  BY <1>1 DEF Undo, Rejected, At
<1>3. stage'[j] = stage[j]
  BY <1>2, EndStays
<1>4. At(j, "saved")
  BY <1>3 DEF AtWork, At, Ends
<1>5. PICK B \in Batches : j \in B /\ \E v \in B : ~At(v, "saved")'
  BY <1>3 DEF AtWork, Ends, At
<1>6. PICK v \in B : ~At(v, "saved")'
  BY <1>5
<1>7. At(v, "saved") /\ v \in Jobs
  BY <1>1, <1>4, <1>5, FilesAssumption DEF Jobs
<1>8. PICK C \in Batches : Undo(C) /\ v \in C
  BY <1>6, <1>7, EndStays DEF At, Ends
<1>9. C = B
  BY <1>8, OneBatch
<1> QED
  BY <1>2, <1>4, <1>5, <1>8, <1>9

(* An upload starts with its name, unless it is refused. *)
LEMMA UploadStarts ==
    ASSUME TypeOK, Next, NEW u \in Uploads, At(u, "none")
    PROVE  stage'[u] \in {"none", "failed"} \/ Named(u)
<1> USE FilesAssumption DEF Jobs, At, Go, TypeOK
<1>1. ASSUME NEW v \in Uploads, Upload(v), ~Named(u)
      PROVE  stage'[u] \in {"none", "failed"}
  BY <1>1 DEF Upload, Named, Refused, Storing, Stored, StoreFails, TooLarge, FindExisting,
              Updated, UpdateFails, DeleteSafe
<1>2. ASSUME NEW d \in Deletions, DeleteFile(d) PROVE stage'[u] = "none"
  BY <1>2 DEF DeleteFile, DeleteSafe
<1>3. ASSUME NEW k \in Jobs, DeleteObject(k) \/ DeleteRow(k) PROVE stage'[u] = "none"
  BY <1>3 DEF DeleteObject, DeleteRow
<1>4. ASSUME NEW B \in Batches, Undo(B) PROVE stage'[u] = "none"
  BY <1>4 DEF Undo
<1> QED
  BY <1>1, <1>2, <1>3, <1>4 DEF Next

(* An upload takes hold of a name only when it gets it.                      *)
LEMMA HoldStarts ==
    ASSUME IInv, Next, NEW u \in Uploads, Holds(u)' PROVE Holds(u) \/ Named(u)
<1> USE FilesAssumption DEF Jobs, At, Ends
<1>0. TypeOK
  BY DEF IInv
<1>1. CASE At(u, "none")
  <2>1. stage'[u] \notin {"none", "failed"}
    BY <1>0 DEF Holds, AtWork
  <2> QED
    BY <1>0, <1>1, <2>1, UploadStarts
<1>2. CASE ~At(u, "none") /\ ~AtWork(u)
  <2>1. ~AtWork(u)'
    BY <1>0, <1>2, WorkStarts
  <2>2. stage'[u] = "saved" /\ u \notin doomed'
    BY <2>1 DEF Holds
  <2>3. u \notin doomed
    BY <1>0, <2>2, Grows
  <2>4. stage[u] = "saved"
    BY <1>0, <1>2, <2>2, EndStays DEF AtWork, TypeOK
  <2> QED
    BY <2>3, <2>4 DEF Holds
<1> QED
  BY <1>1, <1>2 DEF Holds

(* An upload that takes a name in use, or of an object, shares it.           *)
LEMMA ExclusiveStep == ASSUME IInv, Next PROVE Exclusive'
<1>0. TypeOK /\ Exclusive /\ RowIsKept
  BY DEF IInv
<1> SUFFICES ASSUME NEW u \in Uploads, NEW v \in Uploads, u # v,
                    name'[u] = name'[v], name'[u] # None, name'[u] \notin shared',
                    Holds(u)', Holds(v)'
             PROVE  FALSE
  BY DEF Exclusive, Sole
<1>1. ASSUME NEW w \in Uploads, NEW x \in Uploads, w # x, Named(w),
             name'[w] = name'[x], name'[w] \notin shared', Holds(x)'
      PROVE  FALSE
  <2>1. ~Named(x)
    BY <1>0, <1>1 DEF Named, TypeOK, Go, At, Jobs
  <2>2. Holds(x) /\ name[x] = name'[w]
    BY <1>0, <1>1, <2>1, HoldStarts, NameStays
  <2>3. name'[w] \in Names /\ ~InUse(name'[w], w) /\ object[name'[w]] = None
    BY <1>0, <1>1 DEF Named, TypeOK
  <2>4. ~AtWork(x)
    BY <1>1, <2>2, <2>3 DEF InUse, Jobs
  <2>5. At(x, "saved") /\ x \notin doomed
    BY <2>2, <2>4 DEF Holds
  <2>6. name[x] \notin shared
    BY <1>0, <1>1, <2>2, Grows
  <2>7. object[name[x]] = x
    BY <1>0, <2>5, <2>6 DEF RowIsKept, HasRow, Sole, Kept
  <2> QED
    BY <2>2, <2>3, <2>7, FilesAssumption
<1>2. ~Named(u) /\ ~Named(v)
  BY <1>1
<1> QED
  BY <1>0, <1>2, HoldStarts, NameStays, Grows DEF Exclusive, Sole

-----------------------------------------------------------------------------
(* Who changes the object of a name.                                         *)
LEMMA ObjectTouched ==
    ASSUME TypeOK, Next, NEW n \in Names, object'[n] # object[n]
    PROVE  \/ \E v \in Uploads : Storing(v) /\ name[v] = n /\ object'[n] = v
           \/ object'[n] = None /\ \E v \in Uploads : TooLarge(v) /\ name[v] = n
           \/ object'[n] = None /\ \E j \in Jobs : DeleteObject(j) /\ target[j] = n
<1> USE DEF TypeOK, pastVars
<1>1. ASSUME NEW u \in Uploads, Upload(u)
      PROVE  \/ Storing(u) /\ name[u] = n /\ object'[n] = u
             \/ object'[n] = None /\ TooLarge(u) /\ name[u] = n
  BY <1>1 DEF Upload, Named, Refused, Storing, Stored, StoreFails, TooLarge, ObjectDeleted,
              ObjectRemains, FindExisting, Updated, UpdateFails
<1>2. ASSUME NEW j \in Jobs, DeleteObject(j) PROVE object'[n] = None /\ target[j] = n
  BY <1>2 DEF DeleteObject, ObjectDeleted, ObjectRemains
<1> QED
  BY <1>1, <1>2 DEF Next, DeleteFile, DeleteRow, Undo

(* Who changes the row of a name.                                            *)
LEMMA RowTouched ==
    ASSUME TypeOK, Next, NEW n \in Names, row'[n] # row[n]
    PROVE  \/ \E v \in Uploads : Updated(v) /\ name[v] = n /\ row[n] = None /\ row'[n] = v
           \/ \E j \in Jobs : DeleteRow(j) /\ target[j] = n /\ row'[n] = None
<1> USE DEF TypeOK, pastVars
<1>1. ASSUME NEW u \in Uploads, Upload(u)
      PROVE  Updated(u) /\ name[u] = n /\ row[n] = None /\ row'[n] = u
  BY <1>1 DEF Upload, Named, Refused, Storing, Stored, StoreFails, TooLarge,
              FindExisting, Updated, UpdateFails, Free
<1>2. ASSUME NEW j \in Jobs, DeleteRow(j) PROVE target[j] = n /\ row'[n] = None
  BY <1>2 DEF DeleteRow
<1> QED
  BY <1>1, <1>2 DEF Next, DeleteFile, DeleteObject, Undo

(* Who changes the field.                                                    *)
LEMMA FieldTouched ==
    ASSUME TypeOK, Next, field' # field
    PROVE  \/ \E v \in Single : Updated(v)
           \/ \E j \in Jobs : DeleteRow(j) /\ row[target[j]] = field
<1> USE DEF pastVars
<1>1. ASSUME NEW u \in Uploads, Upload(u) PROVE u \in Single /\ Updated(u)
  BY <1>1 DEF Upload, Named, Refused, Storing, Stored, StoreFails, TooLarge,
              FindExisting, Updated, UpdateFails
<1>2. ASSUME NEW j \in Jobs, DeleteRow(j) PROVE row[target[j]] = field
  BY <1>2 DEF DeleteRow
<1> QED
  BY <1>1, <1>2 DEF Next, DeleteFile, DeleteObject, Undo

(* An upload finds no file, or one that has a row.                           *)
LEMMA ExistingFound ==
    ASSUME TypeOK, Next, NEW u \in Uploads, existing'[u] # existing[u]
    PROVE  existing'[u] = None \/ row[existing'[u]] # None
<1> USE DEF TypeOK, pastVars
<1>1. NameOfField = None \/ row[NameOfField] # None
  BY DEF NameOfField
<1>2. ASSUME NEW v \in Uploads, Upload(v)
      PROVE  existing'[u] = None \/ row[existing'[u]] # None
  BY <1>1, <1>2 DEF Upload, Named, Refused, Storing, Stored, StoreFails, TooLarge,
              FindExisting, Updated, UpdateFails
<1> QED
  BY <1>2 DEF Next, DeleteFile, DeleteObject, DeleteRow, Undo

(* How an upload comes to its stages. *)
LEMMA StageReached ==
    ASSUME TypeOK, Progress, Next, NEW u \in Uploads
    PROVE  /\ Young(u)' => Young(u) \/ Named(u)
           /\ Written(u)' => Written(u) \/ Storing(u)
           /\ HasRow(u)' => HasRow(u) \/ Updated(u)
           /\ stage'[u] \in {"failed", "undone"} =>
                 \/ stage[u] \in {"failed", "undone"} \/ Refused(u) \/ StoreFails(u)
                 \/ TooLarge(u) \/ (DeleteRow(u) /\ then[u] # "saved")
<1> USE FilesAssumption DEF TypeOK, Progress, Jobs, At, Go, pastVars, Young, Written, HasRow, GoesOn
<1>1. ASSUME NEW v \in Uploads, Upload(v), v # u
      PROVE  stage'[u] = stage[u] /\ then'[u] = then[u]
  BY <1>1 DEF Upload, Named, Refused, Storing, Stored, StoreFails, TooLarge,
              FindExisting, Updated, UpdateFails, DeleteSafe
<1>2. ASSUME NEW d \in Deletions, DeleteFile(d)
      PROVE  stage'[u] = stage[u] /\ then'[u] = then[u]
  BY <1>2 DEF DeleteFile, DeleteSafe
<1>3. ASSUME NEW j \in Jobs, DeleteObject(j) \/ DeleteRow(j), j # u
      PROVE  stage'[u] = stage[u] /\ then'[u] = then[u]
  BY <1>3 DEF DeleteObject, DeleteRow
<1>4. CASE Upload(u)
  <2>1. CASE Named(u) \/ Refused(u) \/ Storing(u) \/ Stored(u) \/ StoreFails(u) \/ TooLarge(u)
    BY <2>1 DEF Named, Refused, Storing, Stored, StoreFails, TooLarge
  <2>2. CASE FindExisting(u) \/ Updated(u) \/ UpdateFails(u)
    BY <2>2 DEF FindExisting, Updated, UpdateFails, DeleteSafe
  <2> QED
    BY <1>4, <2>1, <2>2 DEF Upload
<1>5. CASE DeleteObject(u)
  BY <1>5 DEF DeleteObject
<1>6. CASE DeleteRow(u)
  BY <1>6 DEF DeleteRow
<1>7. ASSUME NEW B \in Batches, Undo(B)
      PROVE  \/ stage'[u] = stage[u] /\ then'[u] = then[u]
             \/ stage'[u] = "object" /\ then'[u] = "undone"
  BY <1>7 DEF Undo
<1>8. CASE stage'[u] = stage[u] /\ then'[u] = then[u]
  BY <1>8
<1> QED
  BY <1>1, <1>2, <1>3, <1>4, <1>5, <1>6, <1>7, <1>8 DEF Next

(* What a job is to delete, and that it is doomed. *)
LEMMA DeletionStarts ==
    ASSUME TypeOK, Next, NEW j \in Jobs
    PROVE  \/ target'[j] = target[j] /\ (stage'[j] \in {"object", "row"} =>
                                            stage[j] \in {"object", "row"})
           \/ /\ j \in Uploads /\ Updated(j) /\ target'[j] = existing[j]
              /\ stage'[j] = "object" /\ {row[existing[j]]} \ {None} \subseteq doomed'
           \/ /\ j \in Uploads /\ UpdateFails(j) /\ target'[j] = name[j]
              /\ stage'[j] = "object"
           \/ /\ DeleteFile(j) /\ row[target'[j]] # None /\ row[target'[j]] \in doomed'
              /\ stage'[j] = "object"
           \/ /\ j \in Uploads /\ At(j, "saved") /\ AtWork(j) /\ target'[j] = name[j]
              /\ stage'[j] = "object" /\ j \in doomed'
<1> USE FilesAssumption DEF TypeOK, Jobs, At, Go, pastVars
<1>1. ASSUME NEW v \in Uploads, Upload(v)
      PROVE  \/ target'[j] = target[j] /\ (stage'[j] \in {"object", "row"} =>
                                              stage[j] \in {"object", "row"})
             \/ /\ Updated(j) /\ v = j /\ target'[j] = existing[j]
                /\ stage'[j] = "object" /\ {row[existing[j]]} \ {None} \subseteq doomed'
             \/ /\ UpdateFails(j) /\ v = j /\ target'[j] = name[j]
                /\ stage'[j] = "object"
  <2>1. CASE Named(v) \/ Refused(v) \/ Storing(v) \/ Stored(v) \/ StoreFails(v) \/ TooLarge(v)
             \/ FindExisting(v)
    BY <2>1 DEF Named, Refused, Storing, Stored, StoreFails, TooLarge, FindExisting
  <2>2. CASE Updated(v)
    <3>1. CASE v # j
      BY <2>2, <3>1 DEF Updated, DeleteSafe
    <3>2. CASE v = j /\ Replaced(v) = None
      BY <2>2, <3>2 DEF Updated
    <3>3. CASE v = j /\ Replaced(v) # None
      <4>1. DeleteSafe(j, existing[j], "saved") /\ doomed' = doomed \cup ({row[existing[j]]} \ {None})
        BY <2>2, <3>3 DEF Updated, Replaced
      <4>2. target'[j] = existing[j] /\ stage'[j] = "object"
        BY <4>1 DEF DeleteSafe
      <4> QED
        BY <2>2, <3>3, <4>1, <4>2
    <3> QED
      BY <3>1, <3>2, <3>3
  <2>3. CASE UpdateFails(v)
    BY <2>3 DEF UpdateFails, DeleteSafe
  <2> QED
    BY <1>1, <2>1, <2>2, <2>3 DEF Upload
<1>2. ASSUME NEW d \in Deletions, DeleteFile(d)
      PROVE  \/ target'[j] = target[j] /\ stage'[j] = stage[j]
             \/ /\ d = j /\ row[target'[j]] # None /\ row[target'[j]] \in doomed'
                /\ stage'[j] = "object"
  BY <1>2 DEF DeleteFile, DeleteSafe
<1>3. ASSUME NEW k \in Jobs, DeleteObject(k)
      PROVE  target'[j] = target[j] /\ (k # j => stage'[j] = stage[j])
             /\ (k = j => stage[j] = "object")
  BY <1>3 DEF DeleteObject
<1>4. ASSUME NEW k \in Jobs, DeleteRow(k)
      PROVE  target'[j] = target[j] /\ (k # j => stage'[j] = stage[j])
             /\ (k = j => stage[j] = "row")
  BY <1>4 DEF DeleteRow
<1>5. ASSUME NEW B \in Batches, Undo(B)
      PROVE  \/ target'[j] = target[j] /\ stage'[j] = stage[j]
             \/ /\ j \in Uploads /\ At(j, "saved") /\ AtWork(j) /\ target'[j] = name[j]
                /\ stage'[j] = "object" /\ j \in doomed'
  BY <1>5 DEF Undo, Rejected, AtWork
<1> QED
  BY <1>1, <1>2, <1>3, <1>4, <1>5 DEF Next

(* A job deletes the row only after the object.                              *)
LEMMA RowAfterObject ==
    ASSUME TypeOK, Next, NEW j \in Jobs, stage'[j] = "row"
    PROVE  (stage[j] = "row" \/ DeleteObject(j)) /\ then'[j] = then[j]
<1> USE FilesAssumption DEF TypeOK, Jobs, At, Go
<1>1. ASSUME NEW v \in Uploads, Upload(v)
      PROVE  stage[j] = "row" /\ then'[j] = then[j]
  BY <1>1 DEF Upload, Named, Refused, Storing, Stored, StoreFails, TooLarge,
              FindExisting, Updated, UpdateFails, DeleteSafe
<1>2. ASSUME NEW d \in Deletions, DeleteFile(d)
      PROVE  stage[j] = "row" /\ then'[j] = then[j]
  BY <1>2 DEF DeleteFile, DeleteSafe
<1>3. ASSUME NEW k \in Jobs, DeleteObject(k) \/ DeleteRow(k)
      PROVE  (stage[j] = "row" \/ DeleteObject(j)) /\ then'[j] = then[j]
  <2>1. CASE k = j
    BY <1>3, <2>1 DEF DeleteObject, DeleteRow
  <2>2. CASE k # j
    BY <1>3, <2>2 DEF DeleteObject, DeleteRow
  <2> QED
    BY <2>1, <2>2
<1>4. ASSUME NEW B \in Batches, Undo(B)
      PROVE  stage[j] = "row" /\ then'[j] = then[j]
  BY <1>4 DEF Undo
<1> QED
  BY <1>1, <1>2, <1>3, <1>4 DEF Next

(* A job between its first and its last step is at work. *)
LEMMA Busy ==
    ASSUME NEW j \in Jobs,
           stage[j] \in {"named", "storing", "stored", "found", "object", "row"}
    PROVE  AtWork(j)
BY DEF AtWork, Ends

(* Another upload that is at work has another name. *)
LEMMA NameIsOwn ==
    ASSUME IInv, NEW u \in Uploads, NEW v \in Uploads, Holds(u), Holds(v), Sole(u),
           name[u] = name[v], name[u] \in Names
    PROVE  u = v
BY FilesAssumption DEF IInv, Exclusive, TypeOK

(* A deletion chooses a name that has a row, an upload one that is free.     *)
LEMMA YoungAloneStep == ASSUME IInv, Next PROVE YoungAlone'
<1> USE FilesAssumption DEF Jobs
<1>0. TypeOK /\ Progress /\ Exclusive /\ YoungAlone
  BY DEF IInv
<1> SUFFICES ASSUME NEW u \in Uploads, Young(u)', Sole(u)'
             PROVE  /\ row'[name'[u]] = None
                    /\ Written(u)' => object'[name'[u]] = u
                    /\ \A j \in Jobs : AtWork(j)' =>
                          target'[j] # name'[u] /\ (j \in Uploads => existing'[j] # name'[u])
  BY DEF YoungAlone
<1>1. CASE Named(u)
  <2>1. name'[u] \in Names /\ row'[name'[u]] = None /\ ~InUse(name'[u], u)
    BY <1>0, <1>1 DEF Named, TypeOK, Sole
  <2>2. ~Written(u)'
    BY <1>0, <1>1 DEF Named, TypeOK, Written, Go
  <2>3. target' = target /\ existing' = existing /\ target[u] = None /\ existing[u] = None
    BY <1>0, <1>1 DEF Named, Progress
  <2>4. ASSUME NEW j \in Jobs, j # u, AtWork(j)' PROVE AtWork(j)
    <3>1. stage'[j] = stage[j]
      BY <1>0, <1>1, <2>4 DEF Named, Go, TypeOK
    <3> QED
      BY <1>0, <2>4, <3>1, WorkStarts DEF AtWork, At, Ends
  <2> QED
    BY <2>1, <2>2, <2>3, <2>4 DEF InUse
<1>2. CASE ~Named(u)
  <2>1. Young(u) /\ name'[u] = name[u] /\ name[u] \in Names /\ Sole(u)
    BY <1>0, <1>2, StageReached, NameStays, Grows, YoungHasName DEF Sole
  <2> DEFINE n == name[u]
  <2>2. /\ row[n] = None /\ (Written(u) => object[n] = u)
        /\ \A j \in Jobs : AtWork(j) => target[j] # n /\ (j \in Uploads => existing[j] # n)
    BY <1>0, <2>1 DEF YoungAlone
  <2>3. ASSUME NEW v \in Uploads, AtWork(v), name[v] = n PROVE v = u
    <3>1. AtWork(u)
      BY <2>1, Busy DEF Young
    <3> QED
      BY <2>1, <2>3, <3>1, NameIsOwn DEF Holds
  <2>4. row'[n] = None
    <3>1. ASSUME NEW v \in Uploads, Updated(v), name[v] = n PROVE FALSE
      <4>1. v = u
        BY <2>3, <3>1, Busy DEF Updated, At
      <4> QED
        BY <1>0, <3>1, <4>1 DEF Updated, Young, Go, DeleteSafe, TypeOK
    <3> QED
      BY <1>0, <2>1, <2>2, <3>1, RowTouched
  <2>5. ASSUME Written(u)' PROVE object'[n] = u
    <3>1. ASSUME NEW v \in Uploads, Storing(v), name[v] = n PROVE v = u
      BY <2>3, <3>1, Busy DEF Storing, At
    <3>2. ASSUME NEW v \in Uploads, TooLarge(v), name[v] = n PROVE FALSE
      <4>1. v = u
        BY <2>3, <3>2, Busy DEF TooLarge, At
      <4> QED
        BY <1>0, <3>2, <4>1 DEF TooLarge, Young, Go, TypeOK
    <3>3. ASSUME NEW j \in Jobs, DeleteObject(j), target[j] = n PROVE FALSE
      BY <2>2, <3>3, Busy DEF DeleteObject, At
    <3>4. CASE Storing(u)
      BY <1>0, <2>1, <3>4 DEF Storing, TypeOK
    <3>5. CASE Written(u)
      BY <1>0, <2>1, <2>2, <3>1, <3>2, <3>3, <3>5, ObjectTouched
    <3> QED
      BY <1>0, <2>5, <3>4, <3>5, StageReached
  <2>6. ASSUME NEW j \in Jobs, AtWork(j)'
        PROVE  target'[j] # n /\ (j \in Uploads => existing'[j] # n)
    <3>1. CASE AtWork(j)
      <4>1. j \in Uploads => existing'[j] # n
        BY <1>0, <2>1, <2>2, <3>1, ExistingFound
      <4>2. target[j] # n /\ (j \in Uploads => existing[j] # n)
        BY <2>2, <3>1
      <4>3. ASSUME j \in Uploads, target'[j] = name[j], stage'[j] = "object" PROVE name[j] # n
        BY <2>3, <3>1, <4>3 DEF Young
      <4>4. target'[j] # n
        BY <1>0, <2>2, <4>2, <4>3, DeletionStarts
      <4> QED
        BY <4>1, <4>4
    <3>2. CASE At(j, "none")
      <4>1. target[j] = None /\ (j \in Uploads => existing[j] = None)
        BY <1>0, <3>2 DEF Progress
      <4>2. j \in Uploads => existing'[j] # n
        BY <1>0, <2>1, <2>2, <4>1, ExistingFound
      <4>3. target'[j] # n
        BY <1>0, <2>1, <2>2, <3>2, <4>1, DeletionStarts DEF Updated, UpdateFails, At
      <4> QED
        BY <4>2, <4>3
    <3> QED
      BY <1>0, <2>6, <3>1, <3>2, WorkStarts
  <2> QED
    BY <2>1, <2>4, <2>5, <2>6
<1> QED
  BY <1>1, <1>2

(* A file is written over by nobody, and who deletes it has doomed it.       *)
LEMMA RowIsKeptStep == ASSUME IInv, Next PROVE RowIsKept'
<1> USE FilesAssumption DEF Jobs
<1>0. TypeOK /\ Progress /\ Exclusive /\ YoungAlone /\ RowIsKept
  BY DEF IInv
<1> SUFFICES ASSUME NEW u \in Uploads, HasRow(u)', Sole(u)', u \notin doomed'
             PROVE  Kept(u)' /\ \A j \in Jobs : ~Deletes(j, name[u])'
  BY DEF RowIsKept
<1>1. ~Named(u)
  BY <1>0 DEF Named, HasRow, At, GoesOn, Go, TypeOK
<1>2. name'[u] = name[u] /\ Sole(u) /\ u \notin doomed
  BY <1>0, <1>1, NameStays, Grows DEF Sole
<1> DEFINE n == name[u]
<1>3. CASE Updated(u)
  <2>1. Young(u) /\ Written(u) /\ At(u, "found") /\ AtWork(u)
    BY <1>3, Busy DEF Updated, Young, Written, At
  <2>2. n \in Names /\ object[n] = u
        /\ \A j \in Jobs : AtWork(j) => target[j] # n /\ (j \in Uploads => existing[j] # n)
    BY <1>0, <1>2, <2>1, YoungHasName DEF YoungAlone
  <2>3. row'[n] = u /\ object' = object
    BY <1>0, <1>3, <2>2 DEF Updated, TypeOK
  <2>4. ASSUME NEW j \in Jobs, stage'[j] \in {"object", "row"} PROVE target'[j] # n
    <3>1. CASE j = u
      BY <1>0, <1>3, <2>1, <2>2, <2>4, <3>1 DEF Updated, Replaced, DeleteSafe, TypeOK, Go
    <3>2. CASE j # u
      <4>1. stage'[j] = stage[j] /\ target'[j] = target[j]
        BY <1>0, <1>3, <3>2 DEF Updated, DeleteSafe, TypeOK, Go
      <4> QED
        BY <2>2, <2>4, <4>1, Busy
    <3> QED
      BY <3>1, <3>2
  <2> QED
    BY <1>2, <2>2, <2>3, <2>4 DEF Kept, Deletes
<1>4. CASE HasRow(u)
  <2>1. row[n] = u /\ object[n] = u /\ \A j \in Jobs : ~Deletes(j, n)
    BY <1>0, <1>2, <1>4 DEF RowIsKept, Kept
  <2>2. n \in Names /\ Holds(u) /\ ~Young(u)
    BY <1>0, <1>2, <1>4, Busy DEF HasRow, Holds, GoesOn, At, Progress, Young
  <2>3. ASSUME NEW v \in Uploads, AtWork(v), name[v] = n PROVE v = u
    BY <1>2, <2>2, <2>3, NameIsOwn DEF Holds
  <2>4. row'[n] = u
    BY <1>0, <2>1, <2>2, RowTouched DEF DeleteRow, Deletes, At
  <2>5. object'[n] = u
    <3>1. ASSUME NEW v \in Uploads, Storing(v) \/ TooLarge(v), name[v] = n PROVE FALSE
      <4>1. AtWork(v) /\ Young(v)
        BY <3>1, Busy DEF Storing, TooLarge, At, Young
      <4> QED
        BY <2>2, <2>3, <3>1, <4>1
    <3> QED
      BY <1>0, <2>1, <2>2, <3>1, ObjectTouched DEF DeleteObject, Deletes, At
  <2>6. ASSUME NEW j \in Jobs, stage'[j] \in {"object", "row"}, target'[j] = n PROVE FALSE
    <3>1. ~(target[j] = n /\ stage[j] \in {"object", "row"})
      BY <2>1 DEF Deletes
    <3>2. ~(existing[j] = n /\ {row[existing[j]]} \ {None} \subseteq doomed')
      BY <2>1
    <3>3. ASSUME j \in Uploads, UpdateFails(j), name[j] = n PROVE FALSE
      <4>1. AtWork(j) /\ Young(j)
        BY <3>3, Busy DEF UpdateFails, At, Young
      <4> QED
        BY <2>2, <2>3, <3>3, <4>1
    <3>4. ~(row[target'[j]] \in doomed')
      BY <2>1, <2>6
    <3>5. ~(j \in Uploads /\ AtWork(j) /\ name[j] = n /\ j \in doomed')
      BY <2>3
    <3> QED
      BY <1>0, <2>6, <3>1, <3>2, <3>3, <3>4, <3>5, DeletionStarts
  <2> QED
    BY <1>2, <2>4, <2>5, <2>6 DEF Kept, Deletes
<1> QED
  BY <1>0, <1>3, <1>4, StageReached

(* Who takes the field has read it before the file, or deletes the file.     *)
LEMMA FieldIsKeptStep == ASSUME IInv, Next PROVE FieldIsKept'
<1> USE FilesAssumption DEF Jobs
<1>0. TypeOK /\ Progress /\ UnderItsName /\ RowIsKept /\ FieldIsKept
  BY DEF IInv
<1> SUFFICES ASSUME NEW u \in Single, HasRow(u)', Sole(u)', u \notin doomed' \cup stranded'
             PROVE  field' = u
  BY DEF FieldIsKept
<1>1. ~Named(u)
  BY <1>0 DEF Named, HasRow, At, GoesOn, Go, TypeOK
<1>2. name'[u] = name[u] /\ Sole(u) /\ u \notin doomed \cup stranded
  BY <1>0, <1>1, NameStays, Grows DEF Sole
<1>3. CASE Updated(u)
  BY <1>3 DEF Updated
<1>4. CASE HasRow(u) /\ ~Updated(u)
  <2>1. field = u /\ row[name[u]] = u /\ \A j \in Jobs : ~Deletes(j, name[u])
    BY <1>0, <1>2, <1>4 DEF FieldIsKept, RowIsKept, Kept
  <2>2. name[u] \in Names
    BY <1>0, <1>4 DEF HasRow, Progress
  <2>3. ASSUME NEW v \in Single, Updated(v) PROVE FALSE
    <3>1. NameOfField \in Names /\ row[NameOfField] = u
      BY <2>1, <2>2 DEF NameOfField
    <3>2. NameOfField # existing[v] => u \in stranded'
      BY <2>1, <2>3 DEF Updated
    <3>3. NameOfField = existing[v] => u \in doomed'
      BY <2>1, <2>3, <3>1 DEF Updated, Replaced
    <3> QED
      BY <3>2, <3>3
  <2>4. ASSUME NEW j \in Jobs, DeleteRow(j), row[target[j]] = u PROVE FALSE
    <3>1. target[j] \in Names /\ stage[j] = "row"
      BY <1>0, <2>4, TargetIsName DEF DeleteRow, At
    <3>2. name[u] = target[j]
      BY <1>0, <2>4, <3>1 DEF UnderItsName
    <3> QED
      BY <2>1, <3>1, <3>2 DEF Deletes
  <2> QED
    BY <1>0, <2>1, <2>3, <2>4, FieldTouched
<1> QED
  BY <1>0, <1>3, <1>4, StageReached

(* No upload stores an object under a name that is being deleted.            *)
LEMMA ObjectFirstStep == ASSUME IInv, Next PROVE ObjectFirst'
<1> USE FilesAssumption DEF Jobs, At
<1>0. TypeOK /\ Progress /\ YoungAlone /\ ObjectFirst
  BY DEF IInv
<1> SUFFICES ASSUME NEW j \in Jobs, At(j, "row")', target'[j] \notin shared' \cup botched'
             PROVE  object'[target'[j]] = None
  BY DEF ObjectFirst
<1> DEFINE n == target[j]
<1>1. target'[j] = n /\ n \notin shared \cup botched /\ stage[j] \in {"object", "row"}
  BY <1>0, DeletionStarts, Grows
<1>2. n \in Names
  BY <1>0, <1>1, TargetIsName
<1>3. CASE DeleteObject(j)
  BY <1>0, <1>1, <1>2, <1>3 DEF DeleteObject, ObjectDeleted, ObjectRemains, TypeOK
<1>4. CASE At(j, "row")
  <2>1. object[n] = None
    BY <1>0, <1>1, <1>4 DEF ObjectFirst
  <2>2. ASSUME NEW v \in Uploads, Storing(v), name[v] = n PROVE FALSE
    BY <1>0, <1>1, <1>4, <2>2, Busy DEF Storing, Young, YoungAlone, Sole
  <2> QED
    BY <1>0, <1>1, <1>2, <2>1, <2>2, ObjectTouched
<1> QED
  BY <1>0, <1>3, <1>4, RowAfterObject

(* The object goes before the row, and with the upload that has no row.      *)
LEMMA OrphanIsYoungStep == ASSUME IInv, Next PROVE OrphanIsYoung'
<1> USE FilesAssumption DEF Jobs
<1>0. TypeOK /\ Progress /\ ObjectFirst /\ OrphanIsYoung
  BY DEF IInv
<1> SUFFICES ASSUME NEW n \in Names, object'[n] # None, row'[n] = None,
                    n \notin botched' \cup shared'
             PROVE  \E u \in Uploads :
                       name'[u] = n /\ (Written(u)' \/ (At(u, "object")' /\ target'[u] = n))
  BY DEF OrphanIsYoung
<1>1. n \notin botched \cup shared
  BY <1>0, Grows
<1>2. CASE object[n] # None /\ row[n] = None
  <2>1. PICK u \in Uploads : name[u] = n /\ (Written(u) \/ (At(u, "object") /\ target[u] = n))
    BY <1>0, <1>1, <1>2 DEF OrphanIsYoung
  <2>2. name'[u] = n
    BY <1>0, <2>1, NameStays DEF Named, Written, At
  <2>3. Written(u)' \/ (At(u, "object")' /\ target'[u] = n)
    <3> USE <1>0 DEF TypeOK, At, Go, Written, pastVars
    <3>1. ASSUME NEW v \in Uploads, Upload(v), v # u
          PROVE  stage'[u] = stage[u] /\ target'[u] = target[u]
      BY <3>1 DEF Upload, Named, Refused, Storing, Stored, StoreFails, TooLarge,
                  FindExisting, Updated, UpdateFails, DeleteSafe
    <3>2. ASSUME Upload(u), Written(u) PROVE Written(u)' \/ (stage'[u] = "object" /\ target'[u] = n)
      <4>1. ~StoreFails(u) /\ ~TooLarge(u) /\ ~Updated(u)
        BY <2>1 DEF StoreFails, TooLarge, ObjectDeleted, ObjectRemains, Updated
      <4> QED
        BY <2>1, <3>2, <4>1 DEF Upload, Named, Refused, Storing, Stored, FindExisting,
                                UpdateFails, DeleteSafe
    <3>3. Upload(u) => Written(u)
      BY <2>1 DEF Upload, Named, Refused, Storing, Stored, StoreFails, TooLarge,
                  FindExisting, Updated, UpdateFails
    <3>4. ASSUME NEW j \in Jobs, DeleteObject(j) \/ DeleteRow(j), j # u
          PROVE  stage'[u] = stage[u] /\ target'[u] = target[u]
      BY <3>4 DEF DeleteObject, DeleteRow
    <3>5. ~DeleteObject(u) /\ ~DeleteRow(u)
      BY <1>1, <2>1 DEF DeleteObject, ObjectDeleted, ObjectRemains, DeleteRow
    <3>6. ASSUME NEW d \in Deletions, DeleteFile(d)
          PROVE  stage'[u] = stage[u] /\ target'[u] = target[u]
      BY <2>1, <3>6 DEF DeleteFile, DeleteSafe
    <3>7. ASSUME NEW B \in Batches, Undo(B)
          PROVE  stage'[u] = stage[u] /\ target'[u] = target[u]
      BY <2>1, <3>7 DEF Undo
    <3> QED
      BY <2>1, <3>1, <3>2, <3>3, <3>4, <3>5, <3>6, <3>7 DEF Next
  <2> QED
    BY <2>2, <2>3
<1>3. CASE object[n] = None
  <2>1. PICK v \in Uploads : Storing(v) /\ name[v] = n
    BY <1>0, <1>3, ObjectTouched
  <2>2. name'[v] = n /\ Written(v)'
    BY <1>0, <2>1 DEF Storing, Written, Go, TypeOK
  <2> QED
    BY <2>2
<1>4. CASE row[n] # None
  <2>1. PICK j \in Jobs : DeleteRow(j) /\ target[j] = n
    BY <1>0, <1>4, RowTouched
  <2>2. object[n] = None /\ object' = object
    BY <1>0, <1>1, <2>1 DEF ObjectFirst, DeleteRow
  <2> QED
    BY <2>2
<1> QED
  BY <1>2, <1>3, <1>4

(* The ways to fail remove what was stored.                                  *)
LEMMA LeavesNothingStep == ASSUME IInv, Next PROVE LeavesNothing'
<1> USE FilesAssumption DEF Jobs
<1>0. TypeOK /\ Progress /\ UnderItsName /\ LeavesNothing
  BY DEF IInv
<1> SUFFICES ASSUME NEW u \in Uploads, name'[u] # None, name'[u] \notin botched'
             PROVE  /\ stage'[u] \in {"failed", "undone"}
                          => row'[name'[u]] # u /\ object'[name'[u]] # u
                    /\ At(u, "row")' /\ then'[u] # "saved" => object'[name'[u]] # u
  BY DEF LeavesNothing
<1>1. CASE Named(u)
  BY <1>0, <1>1 DEF Named, TypeOK, Go, At
<1>2. CASE ~Named(u)
  <2> DEFINE n == name[u]
  <2>1. name'[u] = n /\ n \in Names /\ n \notin botched
    BY <1>0, <1>2, NameStays, Grows DEF TypeOK
  <2>2. ASSUME object'[n] = u, object[n] # u PROVE Storing(u)
    BY <1>0, <2>1, <2>2, ObjectTouched
  <2>3. ASSUME row'[n] = u, row[n] # u PROVE Updated(u)
    BY <1>0, <2>1, <2>3, RowTouched
  <2>4. ASSUME stage'[u] \in {"failed", "undone"} PROVE row'[n] # u /\ object'[n] # u
    <3> USE <1>0 DEF TypeOK, At, Go
    <3>1. ~Storing(u) /\ ~Updated(u)
      BY <2>4 DEF Storing, Updated, DeleteSafe
    <3>2. CASE stage[u] \in {"failed", "undone"}
      BY <2>1, <2>2, <2>3, <3>1, <3>2 DEF LeavesNothing
    <3>3. CASE Refused(u)
      BY <2>1, <3>3 DEF Refused, Progress
    <3>4. CASE StoreFails(u)
      BY <2>1, <3>4 DEF StoreFails
    <3>5. CASE TooLarge(u)
      <4>1. row[n] # u
        BY <2>1, <3>5 DEF TooLarge, UnderItsName, Young
      <4> QED
        BY <2>1, <3>5, <4>1 DEF TooLarge, ObjectDeleted, ObjectRemains
    <3>6. CASE DeleteRow(u) /\ then[u] # "saved"
      <4>1. object[n] # u
        BY <2>1, <3>6 DEF DeleteRow, LeavesNothing
      <4>2. target[u] = n
        BY <3>6 DEF DeleteRow, Progress, GoesOn
      <4> QED
        BY <2>1, <3>6, <4>1, <4>2 DEF DeleteRow
    <3> QED
      BY <2>4, <3>2, <3>3, <3>4, <3>5, <3>6, StageReached
  <2>5. ASSUME At(u, "row")', then'[u] # "saved" PROVE object'[n] # u
    <3> USE <1>0 DEF TypeOK, At, Go
    <3>1. target'[u] = target[u] /\ stage[u] \in {"object", "row"}
      BY <2>5, DeletionStarts
    <3>2. ~Storing(u)
      BY <3>1 DEF Storing
    <3>3. then'[u] = then[u] /\ (stage[u] = "row" \/ DeleteObject(u))
      BY <2>5, RowAfterObject
    <3>4. CASE stage[u] = "row"
      BY <2>1, <2>2, <2>5, <3>2, <3>3, <3>4 DEF LeavesNothing
    <3>5. CASE DeleteObject(u)
      <4>1. target[u] = n
        BY <2>5, <3>3, <3>5 DEF DeleteObject, Progress, GoesOn
      <4> QED
        BY <2>1, <3>5, <4>1 DEF DeleteObject, ObjectDeleted, ObjectRemains
    <3> QED
      BY <3>3, <3>4, <3>5
  <2> QED
    BY <2>1, <2>4, <2>5
<1> QED
  BY <1>1, <1>2

-----------------------------------------------------------------------------
(* Every step keeps the invariant.                                           *)
LEMMA Invariance == IInv /\ [Next]_vars => IInv'
<1> SUFFICES ASSUME IInv, [Next]_vars PROVE IInv'
  OBVIOUS
<1>1. CASE Next
  BY <1>1, TypeStep, ProgressStep, UnderItsNameStep, ExclusiveStep, YoungAloneStep,
     RowIsKeptStep, FieldIsKeptStep, ObjectFirstStep, OrphanIsYoungStep, LeavesNothingStep
     DEF IInv
<1>2. CASE UNCHANGED vars
  <2> USE <1>2 DEF vars, jobVars, pastVars, IInv, At, GoesOn, HasRow, Young, Written, Sole
  <2>1. TypeOK' /\ Progress' /\ UnderItsName'
    BY DEF TypeOK, Progress, UnderItsName
  <2>2. Exclusive' /\ YoungAlone'
    BY DEF Exclusive, YoungAlone, Holds, AtWork
  <2>3. RowIsKept' /\ FieldIsKept'
    BY DEF RowIsKept, FieldIsKept, Kept, Deletes
  <2>4. ObjectFirst' /\ OrphanIsYoung' /\ LeavesNothing'
    BY DEF ObjectFirst, OrphanIsYoung, LeavesNothing
  <2> QED
    BY <2>1, <2>2, <2>3, <2>4
<1> QED
  BY <1>1, <1>2

(* The invariant holds in every reachable state.                             *)
LEMMA Invariant == Spec => []IInv
BY InitInv, Invariance, PTL DEF Spec

(* Every variable of the uploads and deletions keeps its type: two rows      *)
(* never have one name, and the field of a resource refers to a file whose   *)
(* row exists (file-service.ts, saveContent and deleteSafe).                 *)
THEOREM TypeCorrect == Spec => []TypeOK
BY Invariant, PTL DEF IInv

(* A saved file keeps its row and its object until its deletion is asked     *)
(* for, whatever fails and however uploads and deletions interleave, unless  *)
(* its name was taken while it was in use.                                   *)
THEOREM SavedFilesKept == Spec => []SavedIsKept
<1>1. IInv => SavedIsKept
  BY DEF IInv, RowIsKept, SavedIsKept, HasRow, Sole
<1> QED
  BY <1>1, Invariant, PTL

(* An object without a row belongs to an upload under way, but for a failed  *)
(* operation on its name or a name taken while it was in use.                *)
THEOREM NoOrphans == Spec => []NoOrphan
<1>1. IInv => NoOrphan
  <2> SUFFICES ASSUME IInv, NEW n \in Names, object[n] # None, row[n] = None,
                      n \notin botched \cup shared
               PROVE  \E u \in Uploads : stage[u] \notin Ends /\ name[u] = n
    BY DEF NoOrphan
  <2>1. PICK u \in Uploads : name[u] = n /\ (Written(u) \/ (At(u, "object") /\ target[u] = n))
    BY DEF IInv, OrphanIsYoung
  <2> QED
    BY <2>1 DEF Written, At, Ends
<1> QED
  BY <1>1, Invariant, PTL

(* When a call of saveFiles has rejected and has undone what it had saved,   *)
(* its files are gone, but for a failed operation on their names.            *)
THEOREM RejectedBatchGone == Spec => []RejectedLeavesNothing
<1>1. IInv => RejectedLeavesNothing
  <2> SUFFICES ASSUME IInv, NEW B \in Batches, Rejected(B), NEW u \in B,
                      NEW n \in Names \ botched
               PROVE  At(u, "saved") \/ (row[n] # u /\ object[n] # u)
    BY DEF RejectedLeavesNothing
  <2>1. u \in Uploads /\ u # None
    BY FilesAssumption
  <2>2. stage[u] \in {"saved", "failed", "undone"}
    BY <2>1 DEF Rejected, Settled, Ends, IInv, Progress
  <2>3. row[n] = u \/ object[n] = u => name[u] = n
    BY <2>1 DEF IInv, UnderItsName
  <2> QED
    BY <2>1, <2>2, <2>3, FilesAssumption DEF IInv, LeavesNothing, At
<1> QED
  BY <1>1, Invariant, PTL

(* The single field refers to the file saved last in it: a saved file that   *)
(* is not doomed has lost its field only to an upload whose view of the      *)
(* field was stale.                                                          *)
THEOREM SavedFilesReferenced == Spec => []SavedIsReferenced
<1>1. IInv => SavedIsReferenced
  BY DEF IInv, FieldIsKept, SavedIsReferenced, HasRow, Sole
<1> QED
  BY <1>1, Invariant, PTL
=============================================================================
