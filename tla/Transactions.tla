----------------------------- MODULE Transactions -----------------------------
(***************************************************************************)
(* The calls of PrismaDatabase.transaction and the work they defer to the  *)
(* outcome: packages/core/context/transaction-scope.ts,                    *)
(* packages/data/database/prisma-database.ts, and their users, the         *)
(* resource events (NodeEvents), the cache invalidation (CacheService) and *)
(* the stored files (FileService).                                         *)
(*                                                                         *)
(* A call runs its function once per attempt, each in a context of its own *)
(* that collects the callbacks.  A transaction() inside another joins its  *)
(* context, so the writes below are those of every call on the way.  An    *)
(* upload lasts: it belongs to the context it was started in, also when    *)
(* that is finished before the upload is.  The callbacks of a finished     *)
(* context run one after another, and those of other calls in between.     *)
(*                                                                         *)
(* The database is reduced to its outcome: a transaction commits or rolls  *)
(* back as a whole.  A file is one upload, under a name of its own.        *)
(***************************************************************************)
EXTENDS Naturals, Sequences, SequencesExt

CONSTANTS
    Calls,         \* the calls of transaction() that do not join another
    Models,        \* the models of the records written
    Files,         \* the files that may be uploaded
    Retries,       \* the retries option
    MaxWrites,     \* bound: the writes of a first attempt; each retry has one fewer
    LeavesRunning  \* whether a function may end while its uploads still run

ASSUME TransactionsAssumption ==
    /\ Calls # {}
    /\ Retries \in Nat
    /\ MaxWrites \in Nat
    /\ LeavesRunning \in BOOLEAN

Contexts == Calls \X (0 .. Retries)

VARIABLES
    pc,                 \* where a call is
    attempt,            \* attempt
    conflict,           \* whether the error of the attempt is a write conflict
    outcome,            \* of a context: "open", "committed" or "rolledBack"
    writes,             \* the models of the records a context wrote, in order
    commitCallbacks,    \* commitCallbacks
    rollbackCallbacks,  \* rollbackCallbacks
    left,               \* the callbacks settleTransaction has still to run
    emitted,            \* the writes of a context whose event was emitted
    stale,              \* the models with cached responses older than a commit
    upload,             \* of a file: "none", "storing", "stored" or "over"
    owner,              \* the context a file is uploaded in
    objects,            \* the files in the storage
    rows,               \* the files with a committed row
    created, deleted,   \* the files whose rows a context created and deleted
    undeleted           \* those whose rows it has failed to delete

callVars == <<pc, attempt, conflict>>
fileVars == <<upload, owner, objects, created, deleted, undeleted>>
vars == <<callVars, outcome, writes, commitCallbacks, rollbackCallbacks, left,
          emitted, stale, fileVars, rows>>

(* What the callbacks do: emit the event of the nth write, invalidate the    *)
(* responses about a model, remove a file from the storage.                  *)
Event(n)        == [do |-> "emit", arg |-> n]
Invalidate(m)   == [do |-> "invalidate", arg |-> m]
RemoveObject(f) == [do |-> "remove", arg |-> f]

Callback == {Event(n) : n \in 1 .. MaxWrites}
                \cup {Invalidate(m) : m \in Models} \cup {RemoveObject(f) : f \in Files}

(* The types.                                                                *)
TypeOK ==
    /\ pc \in [Calls -> {"idle", "running", "settling", "resolved", "rejected"}]
    /\ attempt \in [Calls -> 0 .. Retries]
    /\ conflict \in [Calls -> BOOLEAN]
    /\ outcome \in [Contexts -> {"open", "committed", "rolledBack"}]
    /\ writes \in [Contexts -> Seq(Models)]
    /\ commitCallbacks \in [Contexts -> Seq(Callback)]
    /\ rollbackCallbacks \in [Contexts -> Seq(Callback)]
    /\ left \in [Calls -> Seq(Callback)]
    /\ emitted \in [Contexts -> Seq(1 .. MaxWrites)]
    /\ stale \subseteq Models
    /\ upload \in [Files -> {"none", "storing", "stored", "over"}]
    /\ owner \in [Files -> Contexts]
    /\ objects \subseteq Files
    /\ rows \subseteq Files
    /\ created \in [Contexts -> SUBSET Files]
    /\ deleted \in [Contexts -> SUBSET Files]
    /\ undeleted \in [Contexts -> SUBSET Files]

Init ==
    /\ pc = [c \in Calls |-> "idle"]
    /\ attempt = [c \in Calls |-> 0]
    /\ conflict = [c \in Calls |-> FALSE]
    /\ outcome = [x \in Contexts |-> "open"]
    /\ writes = [x \in Contexts |-> <<>>]
    /\ commitCallbacks = [x \in Contexts |-> <<>>]
    /\ rollbackCallbacks = [x \in Contexts |-> <<>>]
    /\ left = [c \in Calls |-> <<>>]
    /\ emitted = [x \in Contexts |-> <<>>]
    /\ stale = {}
    /\ upload = [f \in Files |-> "none"]
    /\ owner = [f \in Files |-> CHOOSE x \in Contexts : TRUE]   \* until the upload
    /\ objects = {}
    /\ rows = {}
    /\ created = [x \in Contexts |-> {}]
    /\ deleted = [x \in Contexts |-> {}]
    /\ undeleted = [x \in Contexts |-> {}]

-----------------------------------------------------------------------------
(* The definitions that end in a comment "mutant" are wrong on purpose: a    *)
(* property fails with one in place of the definition after it.              *)

(* The context the function of a call runs in now. *)
Current(c) == <<c, attempt[c]>>

OneKey(callbacks, m) ==   \* mutant: the models share a key
    IF \E k \in DOMAIN callbacks : callbacks[k].do = "invalidate"
    THEN callbacks
    ELSE Append(callbacks, Invalidate(m))

(* afterCommit with the key of a model: the first callback is kept. *)
AddInvalidation(callbacks, m) ==
    IF Contains(callbacks, Invalidate(m))
    THEN callbacks
    ELSE Append(callbacks, Invalidate(m))

NoRollback(x, f) == UNCHANGED <<rollbackCallbacks, left>>   \* mutant: none

(* afterRollback: the list a rollback runs is the list itself, so that a     *)
(* callback added while it runs still runs.                                  *)
AfterRollback(x, f) ==
    LET c == x[1]
    IN /\ rollbackCallbacks' = [rollbackCallbacks EXCEPT ![x] = Append(@, RemoveObject(f))]
       /\ left' = IF x = Current(c) /\ pc[c] = "settling" /\ outcome[x] = "rolledBack"
                  THEN [left EXCEPT ![c] = Append(@, RemoveObject(f))]
                  ELSE left

(* The query of a context that is finished fails. *)
CanQuery(x) == outcome[x] = "open"

RemovedAtOnce(x, f) ==   \* mutant: the transaction is not looked at
    /\ objects' = objects \ {f}
    /\ UNCHANGED commitCallbacks

(* deleteStored inside a transaction: afterCommit. *)
DeleteStored(x, f) ==
    /\ commitCallbacks' = [commitCallbacks EXCEPT ![x] = Append(@, RemoveObject(f))]
    /\ UNCHANGED objects

-----------------------------------------------------------------------------
(* The function of a call.                                                   *)

Begin(c) ==
    /\ pc[c] = "idle"
    /\ pc' = [pc EXCEPT ![c] = "running"]
    /\ UNCHANGED <<attempt, conflict, outcome, writes, commitCallbacks,
                   rollbackCallbacks, left, emitted, stale, fileVars, rows>>

(* A write of the resource service, up to its invalidateCache and its        *)
(* emitResourceEvent, both inside the transaction.                           *)
Write(c, m) ==
    LET x == Current(c)
        n == Len(writes[x]) + 1
    IN /\ pc[c] = "running"
       /\ n <= MaxWrites - attempt[c]   \* bound
       /\ writes' = [writes EXCEPT ![x] = Append(@, m)]
       /\ commitCallbacks' =
             [commitCallbacks EXCEPT ![x] = Append(AddInvalidation(@, m), Event(n))]
       /\ UNCHANGED <<callVars, outcome, rollbackCallbacks, left, emitted, stale,
                      fileVars, rows>>

StartUpload(c, f) ==
    /\ pc[c] = "running"
    /\ upload[f] = "none"
    /\ upload' = [upload EXCEPT ![f] = "storing"]
    /\ owner' = [owner EXCEPT ![f] = Current(c)]
    /\ UNCHANGED <<callVars, outcome, writes, commitCallbacks, rollbackCallbacks, left,
                   emitted, stale, objects, created, deleted, undeleted, rows>>

(* storage.store() has returned: the rollback will remove the file. *)
Stored(f) ==
    /\ upload[f] = "storing"
    /\ upload' = [upload EXCEPT ![f] = "stored"]
    /\ objects' = objects \cup {f}
    /\ AfterRollback(owner[f], f)
    /\ UNCHANGED <<callVars, outcome, writes, commitCallbacks, emitted, stale,
                   owner, created, deleted, undeleted, rows>>

(* The file is too large: it is removed at once, and again by a rollback. *)
TooLarge(f) ==
    /\ upload[f] = "stored"
    /\ upload' = [upload EXCEPT ![f] = "over"]
    /\ objects' = objects \ {f}
    /\ UNCHANGED <<callVars, outcome, writes, commitCallbacks, rollbackCallbacks, left,
                   emitted, stale, owner, created, deleted, undeleted, rows>>

RowCreated(f) ==
    /\ upload[f] = "stored"
    /\ CanQuery(owner[f])
    /\ upload' = [upload EXCEPT ![f] = "over"]
    /\ created' = [created EXCEPT ![owner[f]] = @ \cup {f}]
    /\ UNCHANGED <<callVars, outcome, writes, commitCallbacks, rollbackCallbacks, left,
                   emitted, stale, owner, objects, deleted, undeleted, rows>>

(* The row is not created, for the transaction is over or for any other      *)
(* reason: deleteSafe removes the file, in a transaction after the commit.   *)
RowFails(f) ==
    /\ upload[f] = "stored"
    /\ upload' = [upload EXCEPT ![f] = "over"]
    /\ DeleteStored(owner[f], f)
    /\ UNCHANGED <<callVars, outcome, writes, rollbackCallbacks, left, emitted, stale,
                   owner, created, deleted, undeleted, rows>>

(* The query that deletes a row.  The database lets one transaction do it.   *)
DeleteRow(x, f) ==
    /\ \A y \in Contexts : outcome[y] = "open" => f \notin deleted[y]
    /\ deleted' = [deleted EXCEPT ![x] = @ \cup {f}]
    /\ UNCHANGED undeleted

(* It fails, and the transaction goes on.  Bound: once per context and file. *)
DeleteRowFails(x, f) ==
    /\ f \notin undeleted[x]
    /\ undeleted' = [undeleted EXCEPT ![x] = @ \cup {f}]
    /\ UNCHANGED deleted

(* deleteFile, or the clean up of a deleted resource: of a file with a row.  *)
(* The removal is registered before the query, whose failure deleteSafe and  *)
(* deleteFiles swallow; a deleteFile that rejects ends in RollBack or is     *)
(* caught by the function.                                                   *)
DeleteFile(c, f) ==
    LET x == Current(c)
    IN /\ pc[c] = "running"
       /\ f \in (rows \cup created[x]) \ deleted[x]
       /\ DeleteStored(x, f)
       /\ DeleteRow(x, f) \/ DeleteRowFails(x, f)
       /\ UNCHANGED <<callVars, outcome, writes, rollbackCallbacks, left, emitted, stale,
                      upload, owner, created, rows>>

-----------------------------------------------------------------------------
(* The end of an attempt.                                                    *)

FunctionMayEnd(c) ==
    /\ pc[c] = "running"
    /\ \/ LeavesRunning
       \/ \A f \in Files : upload[f] \in {"storing", "stored"} => owner[f] # Current(c)

(* The responses cached until now know nothing of the commit. *)
StaleAfter(x) == stale \cup {writes[x][n] : n \in DOMAIN writes[x]}

CommitList(x) == commitCallbacks[x]   \* mutant: whatever the outcome

(* What settleTransaction runs after a rollback. *)
RollbackList(x) == rollbackCallbacks[x]

(* The function resolves and the database commits. *)
Commit(c) ==
    LET x == Current(c)
    IN /\ FunctionMayEnd(c)
       /\ pc' = [pc EXCEPT ![c] = "settling"]
       /\ outcome' = [outcome EXCEPT ![x] = "committed"]
       /\ left' = [left EXCEPT ![c] = commitCallbacks[x]]
       /\ rows' = (rows \cup created[x]) \ deleted[x]
       /\ stale' = StaleAfter(x)
       /\ UNCHANGED <<attempt, conflict, writes, commitCallbacks, rollbackCallbacks,
                      emitted, fileVars>>

(* The function or the commit fails, with a write conflict or another error. *)
RollBack(c, isWriteConflict) ==
    LET x == Current(c)
    IN /\ FunctionMayEnd(c)
       /\ pc' = [pc EXCEPT ![c] = "settling"]
       /\ conflict' = [conflict EXCEPT ![c] = isWriteConflict]
       /\ outcome' = [outcome EXCEPT ![x] = "rolledBack"]
       /\ left' = [left EXCEPT ![c] = RollbackList(x)]
       /\ UNCHANGED <<attempt, writes, commitCallbacks, rollbackCallbacks, emitted, stale,
                      fileVars, rows>>

(* settleTransaction runs the next callback. *)
RunCallback(c) ==
    LET x    == Current(c)
        next == Head(left[c])
    IN /\ pc[c] = "settling"
       /\ left[c] # <<>>
       /\ left' = [left EXCEPT ![c] = Tail(@)]
       /\ \/ /\ next.do = "emit"
             /\ emitted' = [emitted EXCEPT ![x] = Append(@, next.arg)]
             /\ UNCHANGED <<stale, objects>>
          \/ /\ next.do = "invalidate"
             /\ stale' = stale \ {next.arg}
             /\ UNCHANGED <<emitted, objects>>
          \/ /\ next.do = "remove"
             /\ objects' = objects \ {next.arg}
             /\ UNCHANGED <<emitted, stale>>
       /\ UNCHANGED <<callVars, outcome, writes, commitCallbacks, rollbackCallbacks,
                      upload, owner, created, deleted, undeleted, rows>>

NotAwaited(c) == TRUE   \* mutant: settleTransaction is not awaited

CallbacksRun(c) == left[c] = <<>>

MayRetryOnceMore(c) ==   \* mutant: off by one
    /\ conflict[c]
    /\ attempt[c] <= Retries

MayRetry(c) ==
    /\ conflict[c]
    /\ attempt[c] < Retries

(* The callbacks have run and the attempt was a conflict: another one. *)
Retry(c) ==
    /\ pc[c] = "settling"
    /\ CallbacksRun(c)
    /\ MayRetry(c)
    /\ attempt' = [attempt EXCEPT ![c] = @ + 1]
    /\ conflict' = [conflict EXCEPT ![c] = FALSE]
    /\ pc' = [pc EXCEPT ![c] = "running"]
    /\ UNCHANGED <<outcome, writes, commitCallbacks, rollbackCallbacks, left, emitted,
                   stale, fileVars, rows>>

(* The callbacks have run: the call returns or throws. *)
Finish(c) ==
    /\ pc[c] = "settling"
    /\ CallbacksRun(c)
    /\ ~MayRetry(c)
    /\ conflict' = [conflict EXCEPT ![c] = FALSE]
    /\ pc' = [pc EXCEPT ![c] =
                 IF outcome[Current(c)] = "committed" THEN "resolved" ELSE "rejected"]
    /\ UNCHANGED <<attempt, outcome, writes, commitCallbacks, rollbackCallbacks,
                   left, emitted, stale, fileVars, rows>>

Next ==
    \/ \E c \in Calls :
          \/ Begin(c)
          \/ \E m \in Models : Write(c, m)
          \/ \E f \in Files : StartUpload(c, f) \/ DeleteFile(c, f)
          \/ Commit(c)
          \/ \E isWriteConflict \in BOOLEAN : RollBack(c, isWriteConflict)
          \/ RunCallback(c)
          \/ Retry(c)
          \/ Finish(c)
    \/ \E f \in Files : Stored(f) \/ TooLarge(f) \/ RowCreated(f) \/ RowFails(f)

Spec == Init /\ [][Next]_vars

-----------------------------------------------------------------------------
(* Properties.                                                               *)

(* The listeners get the events of committed writes only, each once and in   *)
(* the order of the writes, whichever attempt it was that committed.         *)
EventsOfCommits ==
    \A x \in Contexts :
        /\ emitted[x] # <<>> => outcome[x] = "committed"
        /\ Len(emitted[x]) <= Len(writes[x])
        /\ \A n \in DOMAIN emitted[x] : emitted[x][n] = n

(* A response that a commit has made stale is kept only while a call that    *)
(* has not returned is to invalidate it.                                     *)
StaleIsBeingInvalidated ==
    \A m \in stale : \E c \in Calls : pc[c] = "settling" /\ Contains(left[c], Invalidate(m))

(* When transaction() returns, every event of its writes was emitted.        *)
ResolvedIsEffective ==
    \A c \in Calls : pc[c] = "resolved" =>
        Len(emitted[Current(c)]) = Len(writes[Current(c)])

(* "A rollback cannot leave a database row pointing at a removed file"       *)
(* (file-service.ts:831): neither a rollback nor a removal that waits for a  *)
(* commit takes the file of a row.  Such a row is left only by a transaction *)
(* that committed although its deletion of that row had failed.              *)
RowHasObject ==
    \A f \in rows \ objects :
        \E x \in Contexts : outcome[x] = "committed" /\ f \in undeleted[x]

(* A file without a row is that of a transaction under way, or about to be   *)
(* removed.  Holds when no function leaves an upload running.                *)
NoOrphan ==
    \A f \in objects \ rows :
        \/ outcome[owner[f]] = "open"
        \/ \E c \in Calls : Contains(left[c], RemoveObject(f))

(* "A file stored inside a rolled back transaction is removed."  Does not    *)
(* hold: an upload that was left running removes its file after the commit   *)
(* of a transaction that was rolled back long ago, that is, never.           *)
RolledBackFileRemoved ==
    \A f \in objects :
        outcome[owner[f]] = "rolledBack" /\ upload[f] = "over"
            => \E c \in Calls : Contains(left[c], RemoveObject(f))
=============================================================================
