-------------------------------- MODULE Files --------------------------------
(***************************************************************************)
(* packages/data/storage/file-service.ts outside a transaction, over       *)
(* packages/core/storage/filesystem-storage.ts: files are an object in the *)
(* storage and a row in the database, and every step between the two may   *)
(* fail or have another upload or deletion come between.  (Transactions    *)
(* has the files of a transaction.)                                        *)
(*                                                                         *)
(* An upload is one file of a call of saveFiles, which runs its uploads at *)
(* once.  All files are of one resource: those of Single in a field that   *)
(* holds one file, the others in an array.  An upload and a deletion are   *)
(* both jobs.  Names are what generateFileName makes of a pattern, so two  *)
(* uploads may ask for the same.                                           *)
(***************************************************************************)
CONSTANTS
    Uploads,    \* the files uploaded
    Single,     \* those in the field that holds one file
    Batches,    \* the calls of saveFiles, as sets of uploads
    Deletions,  \* the calls of deleteFile
    Names,      \* the names of files
    None        \* no name, and no file

ASSUME FilesAssumption ==
    /\ Single \subseteq Uploads
    /\ \A u \in Uploads : \E B \in Batches : {C \in Batches : u \in C} = {B}
    /\ UNION Batches \subseteq Uploads
    /\ Uploads \cap Deletions = {}
    /\ None \notin Names \cup Uploads

Jobs == Uploads \cup Deletions

VARIABLES
    object,    \* of a name: the upload whose content the storage has, or None
    row,       \* of a name: the upload whose row the database has, or None
    field,     \* the upload the single field refers to, or None
    stage,     \* of a job: how far it is
    name,      \* of an upload: the name it goes by
    existing,  \* of an upload: the name of the file it found in its field
    target,    \* of a job: the name it is deleting
    then,      \* of a job: its stage after the deletion
    doomed,    \* the uploads that were to be deleted after they had a row
    stranded,  \* those the field stopped referring to by a stale update
    shared,    \* the names taken while another job used them, or a row had them
    botched    \* the names of which a failed operation has left an object or a row

jobVars  == <<stage, name, existing, target, then>>
pastVars == <<doomed, stranded, shared, botched>>
vars == <<object, row, field, jobVars, pastVars>>

Ends == {"none", "saved", "failed", "undone", "ended"}

Stages == Ends \cup {"named", "storing", "stored", "found", "object", "row"}

(* The types.  A name has a row at most once, and the field refers to a row. *)
TypeOK ==
    /\ object \in [Names -> Uploads \cup {None}]
    /\ row \in [Names -> Uploads \cup {None}]
    /\ \A m, n \in Names : row[m] = row[n] => m = n \/ row[m] = None
    /\ field # None => field \in Single /\ \E n \in Names : row[n] = field
    /\ stage \in [Jobs -> Stages]
    /\ name \in [Uploads -> Names \cup {None}]
    /\ existing \in [Uploads -> Names \cup {None}]
    /\ target \in [Jobs -> Names \cup {None}]
    /\ then \in [Jobs -> Ends]
    /\ doomed \subseteq Uploads /\ stranded \subseteq Uploads
    /\ shared \subseteq Names /\ botched \subseteq Names

Init ==
    /\ object = [n \in Names |-> None] /\ row = [n \in Names |-> None] /\ field = None
    /\ stage = [j \in Jobs |-> "none"]
    /\ name = [u \in Uploads |-> None] /\ existing = [u \in Uploads |-> None]
    /\ target = [j \in Jobs |-> None] /\ then = [j \in Jobs |-> "none"]
    /\ doomed = {} /\ stranded = {} /\ shared = {} /\ botched = {}

-----------------------------------------------------------------------------
(* The definitions that end in a comment "mutant" are wrong on purpose: a    *)
(* property fails with one in place of the definition after it.              *)

At(j, s) == stage[j] = s

Go(j, s) == stage' = [stage EXCEPT ![j] = s]

(* A job is at work on its names; saveFiles may still undo an upload it has  *)
(* saved.                                                                    *)
AtWork(j) ==
    \/ stage[j] \notin Ends
    \/ At(j, "saved") /\ \E B \in Batches : j \in B /\ \E v \in B : ~At(v, "saved")

(* Whether a job other than u uses the name. *)
InUse(n, u) ==
    \E j \in Jobs \ {u} :
        /\ AtWork(j)
        /\ target[j] = n \/ (j \in Uploads /\ n \in {name[j], existing[j]})

(* The loop of saveContent ends with a name that the storage does not have.  *)
Named(u) ==
    /\ At(u, "none")
    /\ \E n \in Names :
        /\ object[n] = None
        /\ name' = [name EXCEPT ![u] = n]
        /\ shared' = IF InUse(n, u) \/ row[n] # None THEN shared \cup {n} ELSE shared
    /\ Go(u, "named")
    /\ UNCHANGED <<object, row, field, existing, target, then, doomed, stranded, botched>>

(* What is checked before the store refuses the upload, or no name is free.  *)
Refused(u) ==
    /\ At(u, "none")
    /\ Go(u, "failed")
    /\ UNCHANGED <<object, row, field, name, existing, target, then, pastVars>>

(* store opens the file, which empties one that is there. *)
Storing(u) ==
    /\ At(u, "named")
    /\ object' = [object EXCEPT ![name[u]] = u]
    /\ Go(u, "storing")
    /\ UNCHANGED <<row, field, name, existing, target, then, pastVars>>

(* The name of the file the field refers to. *)
NameOfField == IF field = None THEN None ELSE CHOOSE n \in Names : row[n] = field

Stored(u) ==
    /\ At(u, "storing")
    /\ Go(u, "stored")
    /\ UNCHANGED <<object, row, field, name, existing, target, then, pastVars>>

(* store returns null; what it has written stays. *)
StoreFails(u) ==
    /\ At(u, "storing")
    /\ botched' = botched \cup {name[u]}
    /\ Go(u, "failed")
    /\ UNCHANGED <<object, row, field, name, existing, target, then, doomed, stranded, shared>>

(* The object of a name is deleted, or that fails. *)
ObjectDeleted(n) == object' = [object EXCEPT ![n] = None] /\ UNCHANGED botched

ObjectRemains(n) == object[n] # None /\ object' = object /\ botched' = botched \cup {n}

TooLarge(u) ==
    /\ At(u, "stored")
    /\ ObjectDeleted(name[u]) \/ ObjectRemains(name[u])
    /\ Go(u, "failed")
    /\ UNCHANGED <<row, field, name, existing, target, then, doomed, stranded, shared>>

(* deleteSafe, to go on as s. *)
DeleteSafe(j, n, s) ==
    /\ target' = [target EXCEPT ![j] = n]
    /\ then' = [then EXCEPT ![j] = s]
    /\ Go(j, "object")

FindExisting(u) ==
    /\ At(u, "stored")
    /\ existing' = [existing EXCEPT ![u] = IF u \in Single THEN NameOfField ELSE None]
    /\ Go(u, "found")
    /\ UNCHANGED <<object, row, field, name, target, then, pastVars>>

FreeAnyway(n) == TRUE                            \* mutant

(* A name is unique among the rows. *)
Free(n) == row[n] = None

ReplacedNever(u) == None                         \* mutant
ReplacedLate(u) == IF u \in Single THEN name[u] ELSE None   \* mutant

(* The file that the upload takes the place of. *)
Replaced(u) == existing[u]

(* client.update creates the row. *)
Updated(u) ==
    /\ At(u, "found")
    /\ Free(name[u])
    /\ row' = [row EXCEPT ![name[u]] = u]
    /\ IF u \in Single
       THEN /\ field' = u
            /\ stranded' = IF NameOfField = existing[u] THEN stranded
                           ELSE stranded \cup ({field} \ {None})
       ELSE UNCHANGED <<field, stranded>>
    /\ IF Replaced(u) = None
       THEN Go(u, "saved") /\ UNCHANGED <<target, then, doomed>>
       ELSE /\ DeleteSafe(u, Replaced(u), "saved")
            /\ doomed' = doomed \cup ({row[Replaced(u)]} \ {None})
    /\ UNCHANGED <<object, name, existing, shared, botched>>

UpdateFailsOnly(u) ==                            \* mutant
    /\ At(u, "found")
    /\ Go(u, "failed")
    /\ UNCHANGED <<object, row, field, name, existing, target, then, pastVars>>

(* It fails, the row of its name exists or not; or the read before it did.   *)
UpdateFails(u) ==
    /\ At(u, "found")
    /\ DeleteSafe(u, name[u], "failed")
    /\ UNCHANGED <<object, row, field, name, existing, pastVars>>

-----------------------------------------------------------------------------
(* The steps of deleteSafe, which ignores their failures, and of deleteFile, *)
(* which ends when the storage reports one: it does for an object it has not *)
(* found or not deleted, and for one it has deleted when it then could not   *)
(* remove the empty directories.                                             *)

DeleteObject(j) ==
    /\ At(j, "object")
    /\ ObjectDeleted(target[j]) \/ ObjectRemains(target[j])
    /\ \/ /\ j \in Deletions => object[target[j]] # None /\ object'[target[j]] = None
          /\ Go(j, "row")
       \/ /\ j \in Deletions
          /\ Go(j, then[j])
    /\ UNCHANGED <<row, field, name, existing, target, then, doomed, stranded, shared>>

DeleteRow(j) ==
    LET n == target[j]
    IN  /\ At(j, "row")
        /\ \/ /\ row' = [row EXCEPT ![n] = None]
              /\ field' = IF field = row[n] THEN None ELSE field
              /\ botched' = botched
           \/ /\ row[n] # None
              /\ botched' = botched \cup {n}
              /\ UNCHANGED <<row, field>>
        /\ Go(j, then[j])
        /\ UNCHANGED <<object, name, existing, target, then, doomed, stranded, shared>>

(* deleteFile, of a file that has a row. *)
DeleteFile(d) ==
    /\ At(d, "none")
    /\ \E n \in Names :
        /\ row[n] # None
        /\ DeleteSafe(d, n, "ended")
        /\ doomed' = doomed \cup {row[n]}
    /\ UNCHANGED <<object, row, field, name, existing, stranded, shared, botched>>

-----------------------------------------------------------------------------
(* saveFiles: one upload failed and all are settled.                         *)

SettledByOne(B) == \E u \in B : At(u, "failed")   \* mutant

Settled(B) == \A u \in B : stage[u] \in Ends \ {"none"}

Rejected(B) == Settled(B) /\ \E u \in B : At(u, "failed")

Undo(B) ==
    LET saved == {u \in B : At(u, "saved")}
    IN  /\ Rejected(B)
        /\ saved # {}
        /\ stage' = [j \in Jobs |-> IF j \in saved THEN "object" ELSE stage[j]]
        /\ target' = [j \in Jobs |-> IF j \in saved THEN name[j] ELSE target[j]]
        /\ then' = [j \in Jobs |-> IF j \in saved THEN "undone" ELSE then[j]]
        /\ doomed' = doomed \cup saved
        /\ UNCHANGED <<object, row, field, name, existing, stranded, shared, botched>>

Upload(u) ==
    \/ Named(u) \/ Refused(u) \/ Storing(u) \/ Stored(u) \/ StoreFails(u)
    \/ TooLarge(u) \/ FindExisting(u) \/ Updated(u) \/ UpdateFails(u)

Next ==
    \/ \E u \in Uploads : Upload(u)
    \/ \E d \in Deletions : DeleteFile(d)
    \/ \E j \in Jobs : DeleteObject(j) \/ DeleteRow(j)
    \/ \E B \in Batches : Undo(B)

Spec == Init /\ [][Next]_vars

-----------------------------------------------------------------------------
Kept(u) == row[name[u]] = u /\ object[name[u]] = u

(* A file that was saved keeps its row and its object until its deletion is  *)
(* asked for, whatever else fails; unless its name was taken while another   *)
(* job used it or an old row had it: then an upload of that name that fails, *)
(* or a deletion that comes late, takes them away.                           *)
SavedIsKept ==
    \A u \in Uploads :
        At(u, "saved") /\ u \notin doomed /\ name[u] \notin shared => Kept(u)

(* An object without a row is that of an upload under way, but for a failed  *)
(* operation on its name.                                                    *)
NoOrphan ==
    \A n \in Names :
        object[n] # None /\ row[n] = None /\ n \notin botched \cup shared
            => \E u \in Uploads : stage[u] \notin Ends /\ name[u] = n

(* When saveFiles has rejected and undone what it had saved, none of its     *)
(* files is left, but for a failed operation on the name.                    *)
RejectedLeavesNothing ==
    \A B \in Batches :
        Rejected(B) => \A u \in B, n \in Names \ botched :
            At(u, "saved") \/ (row[n] # u /\ object[n] # u)

(* The field refers to the file saved last in it.  A file that was saved and *)
(* not deleted has lost its field only to an upload that had read the field  *)
(* before.                                                                   *)
SavedIsReferenced ==
    \A u \in Single :
        At(u, "saved") /\ u \notin doomed \cup stranded /\ name[u] \notin shared
            => field = u
=============================================================================
