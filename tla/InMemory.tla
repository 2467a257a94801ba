------------------------------ MODULE InMemory ------------------------------
(***************************************************************************)
(* packages/core/memory/in-memory.ts, the memory of a single process, and  *)
(* the one-time tokens that packages/core/security/store/                  *)
(* memory-security-store.ts keeps in it.                                   *)
(*                                                                         *)
(* A call runs until it awaits; then the other calls go on.  A value is    *)
(* its size, a time is what is left of it: 0 at the last moment an entry   *)
(* is valid, Expired after it.  The locks are on one resource.             *)
(***************************************************************************)
EXTENDS Integers, Sequences, FiniteSetsExt

CONSTANTS
    Keys,       \* the keys of the entries
    Callers,    \* those who call the memory
    Nobody,     \* the owner of a lock that is not taken
    Sizes,      \* the sizes of the values
    MaxSize,    \* MAX_SIZE
    Ttl,        \* the time entries are stored for
    ExpireMs,   \* the time a lock is taken for
    RetryCount  \* the attempts of lock()

ASSUME InMemoryAssumption ==
    /\ Keys # {} /\ IsFiniteSet(Keys)
    /\ Nobody \notin Callers
    /\ Sizes \subseteq Nat \ {0}
    /\ MaxSize \in Nat \ {0}
    /\ Ttl \in Nat \ {0} /\ ExpireMs \in Nat
    /\ RetryCount \in Nat \ {0}

Expired == -1
NoLease == -2
Never   == Ttl + 1
Times   == Expired .. Never

VARIABLES
    order,   \* the keys of _storage, in the order of their insertion
    size,    \* the sizes of the values of _storage
    left,    \* the times left to its entries
    approx,  \* _approximatedSize
    lock,    \* _locks: the owner and the time left
    lease,   \* of a caller: the time left to the lock it holds
    task,    \* what a caller is doing
    given    \* of a token: the uses that got its data since it was written

storage == <<order, size, left, approx>>
vars == <<storage, lock, lease, task, given>>

(* A caller does nothing; has a value to store; deletes entries to get below *)
(* MAX_SIZE; has matched keys to delete; has read the token it uses; waits   *)
(* before another attempt to lock.                                           *)
Task == [op : {"idle", "store", "evict", "matched", "use", "wait"},
         key : Keys, size : Sizes \cup {0}, left : Times, keys : SUBSET Keys, retries : 0 .. RetryCount]

AnyKey == CHOOSE k \in Keys : TRUE
Idle == [op |-> "idle", key |-> AnyKey, size |-> 0, left |-> Never, keys |-> {}, retries |-> 0]
StoreTask(k, s, t) == [Idle EXCEPT !.op = "store", !.key = k, !.size = s, !.left = t]

Stored == {order[i] : i \in DOMAIN order}

(* The types.  A key is in the order once.                                   *)
TypeOK ==
    /\ order \in Seq(Keys) /\ \A i, j \in DOMAIN order : order[i] = order[j] => i = j
    /\ size \in [Keys -> Sizes \cup {0}]
    /\ left \in [Keys -> Times]
    /\ approx \in Nat
    /\ lock \in [owner : Callers \cup {Nobody}, left : Expired .. ExpireMs]
    /\ lease \in [Callers -> NoLease .. ExpireMs]
    /\ task \in [Callers -> Task]
    /\ given \in [Keys -> Nat]

Free == [owner |-> Nobody, left |-> Expired]

Init ==
    /\ order = <<>>
    /\ size = [k \in Keys |-> 0]
    /\ left = [k \in Keys |-> Never]
    /\ approx = 0
    /\ lock = Free
    /\ lease = [c \in Callers |-> NoLease]
    /\ task = [c \in Callers |-> Idle]
    /\ given = [k \in Keys |-> 0]
-----------------------------------------------------------------------------
(* The storage, as a value.  The definitions that end in a comment "mutant"  *)
(* are wrong on purpose: a property fails with one in place of the           *)
(* definition after it.                                                      *)

Storage == [order |-> order, size |-> size, left |-> left, approx |-> approx]

Become(m) == order' = m.order /\ size' = m.size /\ left' = m.left /\ approx' = m.approx

(* The keys of q that are not in S. *)
Rest(q, S) ==
    LET rest[i \in 0 .. Len(q)] ==
            IF i = 0 THEN <<>>
            ELSE IF q[i] \in S THEN rest[i - 1] ELSE Append(rest[i - 1], q[i])
    IN  rest[Len(q)]

Without(m, S) ==
    [m EXCEPT !.order = Rest(@, S),
              !.size  = [k \in Keys |-> IF k \in S THEN 0 ELSE @[k]],
              !.left  = [k \in Keys |-> IF k \in S THEN Never ELSE @[k]]]

(* delete of each key of S; a key that is not stored has size 0. *)
Deleted(m, S) ==
    LET rest == m.approx - SumFunctionOnSet(m.size, S)
    IN  [Without(m, S) EXCEPT !.approx = IF rest < 0 THEN 0 ELSE rest]

WithNewOnly(m, k, s, t) ==   \* mutant: counts the size of a new key only
    IF k \in {m.order[i] : i \in DOMAIN m.order}
    THEN [m EXCEPT !.size[k] = s, !.left[k] = t]
    ELSE [m EXCEPT !.order = Append(@, k), !.size[k] = s, !.left[k] = t, !.approx = @ + s]

WithAgain(m, k, s, t) ==   \* mutant: puts a stored key at the end as well
    [m EXCEPT !.order = Append(@, k), !.size[k] = s, !.left[k] = t, !.approx = @ + s]

(* _storage.set: a key that is stored keeps its place. *)
With(m, k, s, t) ==
    [m EXCEPT !.order = IF k \in {@[i] : i \in DOMAIN @} THEN @ ELSE Append(@, k),
              !.size[k] = s, !.left[k] = t, !.approx = @ + s]

Overdue == {k \in Stored : left[k] = Expired}

(* cleanupExpired; that it awaits between its deletions shows in nothing. *)
Cleanup ==
    /\ Become(Deleted(Storage, Overdue))
    /\ lock' = IF lock.left = Expired THEN Free ELSE lock

Go(c, t) == task' = [task EXCEPT ![c] = t]

-----------------------------------------------------------------------------
(* The entries.                                                              *)

Set(c) ==
    /\ task[c].op = "idle"
    /\ Cleanup
    /\ \E k \in Keys, s \in Sizes, t \in {Ttl, Never} : Go(c, StoreTask(k, s, t))
    /\ UNCHANGED <<lease, given>>

(* The loop of set, up to where it awaits a deletion or ends. *)
Shrink(c, m) ==
    IF m.approx > MaxSize /\ m.order # <<>>
    THEN Become(Deleted(m, {Head(m.order)})) /\ Go(c, [task[c] EXCEPT !.op = "evict"])
    ELSE Become(m) /\ Go(c, Idle)

Store(c) ==
    /\ task[c].op = "store"
    /\ Shrink(c, With(Storage, task[c].key, task[c].size, task[c].left))
    /\ given' = [given EXCEPT ![task[c].key] = 0]
    /\ UNCHANGED <<lock, lease>>

Evict(c) ==
    /\ task[c].op = "evict"
    /\ Shrink(c, Storage)
    /\ UNCHANGED <<lock, lease, given>>

(* get of an entry whose time is over; another get changes nothing. *)
GetExpired(c) ==
    /\ task[c].op = "idle"
    /\ Overdue # {}
    /\ Cleanup
    /\ UNCHANGED <<lease, task, given>>

Delete(c) ==
    /\ task[c].op = "idle"
    /\ \E k \in Stored : Become(Deleted(Storage, {k}))
    /\ UNCHANGED <<lock, lease, task, given>>

(* keys, which removes the entries whose time is over from _storage alone;   *)
(* deleteMatching awaits it and deletes those it returns.                    *)
ListKeys(c) ==
    /\ task[c].op = "idle"
    /\ Become(Without(Storage, Overdue))
    /\ \E M \in SUBSET (Stored \ Overdue) :
        Go(c, IF M = {} THEN Idle ELSE [Idle EXCEPT !.op = "matched", !.keys = M])
    /\ UNCHANGED <<lock, lease, given>>

DeleteMatching(c) ==
    /\ task[c].op = "matched"
    /\ Become(Deleted(Storage, task[c].keys))
    /\ Go(c, Idle)
    /\ UNCHANGED <<lock, lease, given>>

-----------------------------------------------------------------------------
(* useOneTimeToken: it reads the token, and what the validation says of what *)
(* it has read decides what becomes of it.  generateOneTimeToken is a Set.   *)

Use(c) ==
    /\ task[c].op = "idle"
    /\ \E k \in Stored : /\ left[k] \in 0 .. Ttl
                         /\ Go(c, [Idle EXCEPT !.op = "use", !.key = k, !.left = left[k]])
    /\ UNCHANGED <<storage, lock, lease, given>>

YieldsAnyway(k) == TRUE   \* mutant: whether or not it removed the token

(* delete tells whether it removed the token: only then is its data given. *)
Yields(k) == k \in Stored

UseValid(c) ==
    LET k == task[c].key
    IN  /\ task[c].op = "use"
        /\ Become(Deleted(Storage, {k}))
        /\ given' = IF Yields(k) THEN [given EXCEPT ![k] = @ + 1] ELSE given
        /\ Go(c, Idle)
        /\ UNCHANGED <<lock, lease>>

UseRevoked(c) ==
    /\ task[c].op = "use"
    /\ Become(Deleted(Storage, {task[c].key}))
    /\ Go(c, Idle)
    /\ UNCHANGED <<lock, lease, given>>

UseRejected(c) ==
    /\ task[c].op = "use"
    /\ Go(c, Idle)
    /\ UNCHANGED <<storage, lock, lease, given>>

(* The rejection comes with other data, stored for the time that is left. *)
UseReplaced(c) ==
    LET k == task[c].key
    IN  /\ task[c].op = "use"
        /\ task[c].left > 0
        /\ Cleanup
        /\ \E s \in Sizes : Go(c, StoreTask(k, s, task[c].left))
        /\ UNCHANGED <<lease, given>>

-----------------------------------------------------------------------------
(* The lock.                                                                 *)

TakenUntil == lock.left > 0   \* mutant: expires one moment too early

Taken == lock.left # Expired

Attempt(c, retries) ==
    IF Taken
    THEN /\ Go(c, [Idle EXCEPT !.op = "wait", !.retries = retries])
         /\ UNCHANGED <<lock, lease>>
    ELSE /\ lock' = [owner |-> c, left |-> ExpireMs]
         /\ lease' = [lease EXCEPT ![c] = ExpireMs]
         /\ Go(c, Idle)

Lock(c) ==
    /\ task[c].op = "idle"
    /\ lease[c] \in {NoLease, Expired}
    /\ Attempt(c, 0)
    /\ UNCHANGED <<storage, given>>

SameRetry(c) == 0   \* mutant: does not count

NextRetry(c) == task[c].retries + 1

(* After the last delay it throws LockNotAcquired. *)
Retry(c) ==
    /\ task[c].op = "wait"
    /\ IF NextRetry(c) < RetryCount
       THEN Attempt(c, NextRetry(c))
       ELSE Go(c, Idle) /\ UNCHANGED <<lock, lease>>
    /\ UNCHANGED <<storage, given>>

OwnsAny(c) == lock.owner # Nobody   \* mutant: without comparing the value

Owns(c) == lock.owner = c

Release(c) ==
    /\ task[c].op = "idle"
    /\ lease[c] # NoLease
    /\ lock' = IF Owns(c) THEN Free ELSE lock
    /\ lease' = [lease EXCEPT ![c] = NoLease]
    /\ UNCHANGED <<storage, task, given>>

-----------------------------------------------------------------------------
Later(t) == IF t \in {Expired, Never} THEN t ELSE t - 1

Sooner(t) == IF t \in {NoLease, Expired} THEN t ELSE t - 1

(* The clock; the time of a token that is in use goes on as well. *)
Tick ==
    /\ left' = [k \in Keys |-> Later(left[k])]
    /\ lock' = [lock EXCEPT !.left = Sooner(@)]
    /\ lease' = [c \in Callers |-> Sooner(lease[c])]
    /\ task' = [c \in Callers |-> IF task[c].op = "use"
                                  THEN [task[c] EXCEPT !.left = Later(@)] ELSE task[c]]
    /\ UNCHANGED <<order, size, approx, given>>

Call(c) ==
    \/ Set(c) \/ GetExpired(c) \/ Delete(c) \/ ListKeys(c)
    \/ Use(c) \/ Lock(c) \/ Release(c)

GoOn(c) ==
    \/ Store(c) \/ Evict(c) \/ DeleteMatching(c)
    \/ UseValid(c) \/ UseRevoked(c) \/ UseRejected(c) \/ UseReplaced(c) \/ Retry(c)

Next == Tick \/ \E c \in Callers : Call(c) \/ GoOn(c)

(* The timer of a delay fires. *)
Spec == Init /\ [][Next]_vars /\ \A c \in Callers : WF_vars(Retry(c))

-----------------------------------------------------------------------------
Total == SumFunctionOnSet(size, Keys)

(* The approximate size is never below the size of the values, whatever      *)
(* order of calls, replacements and expirations led to it; so between two    *)
(* calls of set the values fit in MAX_SIZE.                                  *)
WithinMaxSize ==
    /\ Total <= approx
    /\ (\A c \in Callers : task[c].op # "evict") => Total <= MaxSize

(* A caller whose lock has not expired has it, with the time it counts on:   *)
(* no late release, clean up or attempt of another takes it away.            *)
HolderIsLocked ==
    \A c \in Callers :
        lease[c] \in 0 .. ExpireMs => lock = [owner |-> c, left |-> lease[c]]

(* _locks implements the lease Memory.lock promises: nobody but its owner    *)
(* ends a lock before its time, not even with the handle of an expired one.  *)
LeaseOfLock ==
    INSTANCE Lease WITH Clients <- Callers,
                        holder <- IF lock.left = Expired THEN Nobody ELSE lock.owner,
                        left <- IF lock.left = Expired THEN 0 ELSE lock.left,
                        handles <- {c \in Callers : lease[c] # NoLease}
LeaseSpec == LeaseOfLock!Spec

(* Of the uses that have read a token, in whatever order they go on, one     *)
(* gets its data; another may once a rejected use has written it back.       *)
OneUsePerWrite == \A k \in Keys : given[k] <= 1

(* Whoever waits for the lock gets it or is told that it could not.          *)
LockReturns == \A c \in Callers : task[c].op = "wait" ~> task[c].op # "wait"

(* set returns true "if stored successfully" (common/infrastructure/         *)
(* memory.ts:52): with a single caller, the entry of a value that fits is    *)
(* there when it returns.                                                    *)
SetIsKept ==
    [][\A c \in Callers :
        /\ task[c].op \in {"store", "evict"}
        /\ task'[c].op = "idle"
        /\ task[c].size <= MaxSize
        => \E i \in DOMAIN order' : order'[i] = task[c].key]_vars
=============================================================================
