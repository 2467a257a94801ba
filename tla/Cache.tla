-------------------------------- MODULE Cache --------------------------------
(***************************************************************************)
(* packages/core/cache/cache.ts over a Redis memory                        *)
(* (packages/redis/redis-memory.ts): the entries in the memory, what the   *)
(* process knows of them (their metadata and the eviction index), and the  *)
(* outages it falls back from, after which it clears the cache.            *)
(*                                                                         *)
(* A call does one thing at a time.  Its command goes into the wire; Redis *)
(* executes and answers the commands of a connection in their order, and   *)
(* the answer is handled in the same step, as nothing else tells the two   *)
(* apart.  A command that fails may have been executed or not.             *)
(*                                                                         *)
(* CACHE_SKIP_ON_ERROR is on and EVICTION_DEFERRED off, as by default, and *)
(* MAX_SIZE is not set.  The ages of the entries are left out: a write may *)
(* find any of them expired, or in its EVICTION_GRACE_PERIOD.              *)
(***************************************************************************)
EXTENDS EvictionIndex

CONSTANTS
    Calls,     \* the calls of the methods of the cache, which run at once
    Recovery,  \* the recovery, a call of its own
    Patterns,  \* the sets of keys deleteMatching is called with
    MaxItems,  \* MAX_ITEMS
    Kinds      \* the eviction strategies

ASSUME CacheAssumption ==
    /\ Recovery \notin Calls
    /\ Patterns \subseteq SUBSET Keys
    /\ MaxItems \in Nat \ {0}
    /\ Kinds \subseteq Strategies

Procs == Calls \cup {Recovery}

VARIABLES
    stored,    \* the keys in the memory
    timed,     \* the keys in _entryMeta that a write put there, with expiresAt
    adopted,   \* the keys in _entryMeta that a read put there, without
    index,     \* _evictionIndex
    strategy,  \* EVICTION_STRATEGY
    stale,     \* _stale
    task,      \* what a call is doing
    wire,      \* the calls with a command sent and not answered, in order
    waiting,   \* the calls that wait for the recovery, in order
    owed,      \* the entries a deleteMatching under way has to delete
    missed,    \* the entries one that returned has left in the memory
    late,      \* the entries written when a recovery had passed them: during it,
               \* and after it those missed
    added      \* the other entries put into the index since a write under way
               \* started

vars == <<stored, timed, adopted, index, strategy, stale, task, wire, waiting,
          owed, missed, late, added>>

meta == timed \cup adopted

(* What a call does: one of the commands of a key; the evictions before a    *)
(* write; or deleteEntries, which scans its pattern twice and deletes what   *)
(* the second scan found.  Of a scan, keys are those it has still to visit;  *)
(* spared are the other entries a write found too young to evict.            *)
Task == [op : {"idle", "get", "adopt", "set", "size", "delete", "evict",
               "keys", "matching", "del"},
         key : Keys \cup {NoKey}, keys : SUBSET Keys,
         match : SUBSET Keys, first : SUBSET Keys, found : SUBSET Keys,
         spared : SUBSET Keys]

Idle == [op |-> "idle", key |-> NoKey, keys |-> {}, match |-> {}, first |-> {},
         found |-> {}, spared |-> {}]
One(op, k) == [Idle EXCEPT !.op = op, !.key = k]
Scan(M) == [Idle EXCEPT !.op = "keys", !.keys = M, !.match = M]

(* The calls in the wire, or that wait. *)
Sent(calls) == {calls[i] : i \in DOMAIN calls}
Once(calls) == \A i, j \in DOMAIN calls : calls[i] = calls[j] => i = j

(* The types.  A call has a command in the wire, waits for the recovery,     *)
(* which is then under way, or is idle: run() and guard() lose none.         *)
TypeOK ==
    /\ stored \subseteq Keys /\ timed \subseteq Keys /\ adopted \subseteq Keys \ timed
    /\ index \in Index
    /\ strategy \in Kinds
    /\ stale \in BOOLEAN
    /\ task \in [Procs -> Task]
    /\ wire \in Seq(Procs) /\ waiting \in Seq(Calls)
    /\ Once(wire) /\ Once(waiting) /\ Sent(wire) \cap Sent(waiting) = {}
    /\ Sent(wire) \cup Sent(waiting) = {p \in Procs : task[p].op # "idle"}
    /\ waiting # <<>> => task[Recovery].op # "idle"
    /\ owed \in [Calls -> SUBSET Keys]
    /\ missed \subseteq Keys /\ late \subseteq Keys
    /\ added \in [Calls -> SUBSET Keys]

(* A process starts over the entries of an earlier one.  onInit clears them  *)
(* with CLEAN_START: at once, a deleteMatching, or on the first use.         *)
Init ==
    /\ stored \in SUBSET Keys
    /\ timed = {} /\ adopted = {} /\ index = EmptyIndex
    /\ strategy \in Kinds
    /\ stale \in BOOLEAN
    /\ task = [p \in Procs |-> Idle]
    /\ wire = <<>> /\ waiting = <<>>
    /\ owed = [c \in Calls |-> {}] /\ missed = {} /\ late = {}
    /\ added = [c \in Calls |-> {}]

-----------------------------------------------------------------------------
(* What changes with the entries.  The definitions that end in a comment     *)
(* "mutant" are wrong on purpose: a property fails with one in place of the  *)
(* definition after it.                                                      *)

(* The keys a recovery will not delete any more, but for those it has found. *)
Passed == CASE task[Recovery].op = "del"      -> Keys
            [] task[Recovery].op = "matching" -> Keys \ task[Recovery].keys
            [] OTHER                          -> {}

Written(k) ==
    /\ stored' = stored \cup {k}
    /\ missed' = missed \ {k}
    /\ owed' = [c \in Calls |-> owed[c] \ {k}]
    /\ late' = late \cup ({k} \cap Passed)

Dropped(S) ==
    /\ stored' = stored \ S
    /\ missed' = missed \ S
    /\ owed' = [c \in Calls |-> owed[c] \ S]
    /\ late' = late \ S

entryVars == <<stored, owed, missed, late>>

(* The process forgets about the entries of S. *)
ForgetMeta(S) ==   \* mutant: leaves them in the index
    /\ timed' = timed \ S
    /\ adopted' = adopted \ S
    /\ index' = index

Forget(S) ==
    /\ timed' = timed \ S
    /\ adopted' = adopted \ S
    /\ index' = RemoveAll(index, S)

knownVars == <<timed, adopted, index>>

(* The call whose command is answered goes on with t, or returns. *)
Continue(p, t) ==
    /\ task' = [task EXCEPT ![p] = t]
    /\ wire' = IF t.op = "idle" THEN Tail(wire) ELSE Append(Tail(wire), p)

Answered(p, op) == wire # <<>> /\ p = Head(wire) /\ task[p].op = op

-----------------------------------------------------------------------------
(* A call enters guard().                                                    *)

Requests ==
    {One(op, k) : op \in {"get", "set", "delete"}, k \in Keys}
        \cup {Scan(M) : M \in Patterns}

(* The memory is not available: markUnavailable, and the fallback. *)
FallbackUnmarked(c) ==   \* mutant: without markUnavailable
    /\ task[c].op = "idle"
    /\ \E t \in Requests : missed' = missed \cup (stored \cap t.match)
    /\ UNCHANGED <<knownVars, stored, owed, late, strategy, stale, task, wire, waiting>>

Fallback(c) ==
    /\ task[c].op = "idle"
    /\ \E t \in Requests : missed' = missed \cup (stored \cap t.match)
    /\ stale' = TRUE
    /\ UNCHANGED <<knownVars, stored, owed, late, strategy, task, wire, waiting>>

(* run() goes on without a recovery. *)
RunsAnyway == TRUE   \* mutant: without looking whether the cache is stale

Runs == ~stale

Start(c) ==
    /\ task[c].op = "idle"
    /\ Runs
    /\ \E t \in Requests :
        /\ t.op # "set"
        /\ task' = [task EXCEPT ![c] = t]
        /\ owed' = [owed EXCEPT ![c] = stored \cap t.match]
    /\ wire' = Append(wire, c)
    /\ UNCHANGED <<knownVars, stored, missed, late, strategy, stale, waiting>>

(* Entries whose time has passed: the memory has dropped them, or is being   *)
(* written again.                                                            *)
Expirable == {k \in timed : k \notin stored \/ 
                              \E c \in Calls : task[c].op = "size" /\ task[c].key = k}

ExcessBefore(gone) == Cardinality(meta \ gone) - MaxItems   \* mutant: no room for the entry

ExcessAfter(gone) == Cardinality(meta \ gone) - MaxItems + 1

(* The entries of an index that a write which has n to evict may find in     *)
(* their grace period: any, as their ages are left out.  FIFO does not look. *)
Young(l, n) == IF n <= 0 \/ strategy = "FIFO" THEN {{}} ELSE SUBSET l.nodes

(* The n entries to evict, or all that are old enough: the first from the    *)
(* head, or for LFU those of the lowest scores, which may be any.            *)
Candidates(l, n, young) ==
    LET old   == l.nodes \ young
        order == FromHead(l, Cardinality(Keys))
    IN  IF n <= 0 THEN {{}}
        ELSE {S \in SUBSET old :
                /\ Cardinality(S) = IF n < Cardinality(old) THEN n ELSE Cardinality(old)
                /\ strategy # "LFU" => \A i, j \in DOMAIN order :
                        i < j /\ order[j] \in S => order[i] \in S \cup young}

(* The first command of a write. *)
FirstOf(k, S, young) ==
    [One(IF S = {} THEN "set" ELSE "evict", k) EXCEPT !.keys = S, !.spared = young \ {k}]

(* writeEntry up to its first command: the evictions, or else the write.     *)
(* They enter guard() in the same tick, which has just let the write pass.   *)
Write(c) ==
    /\ task[c].op = "idle"
    /\ Runs
    /\ \E k \in Keys, gone \in SUBSET Expirable :
        /\ Forget(gone)
        /\ \E young \in Young(index', ExcessAfter(gone)) :
            \E S \in Candidates(index', ExcessAfter(gone), young) :
                task' = [task EXCEPT ![c] = FirstOf(k, S, young)]
    /\ wire' = Append(wire, c)
    /\ UNCHANGED <<entryVars, strategy, stale, waiting>>

(* run() waits for the recovery, which the first to wait starts.  A write    *)
(* that has waited finds no metadata, and evicts nothing.                    *)
Join(c) ==
    /\ task[c].op = "idle"
    /\ stale
    /\ \E t \in Requests :
        /\ task' = [task EXCEPT ![c] = t,
                    ![Recovery] = IF @.op = "idle" THEN Scan(Keys) ELSE @]
        /\ owed' = [owed EXCEPT ![c] = stored \cap t.match]
    /\ waiting' = Append(waiting, c)
    /\ wire' = IF task[Recovery].op = "idle" THEN Append(wire, Recovery) ELSE wire
    /\ UNCHANGED <<knownVars, stored, missed, late, strategy, stale>>

-----------------------------------------------------------------------------
(* The answers.                                                              *)

GetKnown(c) ==
    LET k == task[c].key
    IN  /\ Answered(c, "get")
        /\ k \in stored \cap meta
        /\ index' = Touch(strategy, index, k)
        /\ Continue(c, Idle)
        /\ UNCHANGED <<timed, adopted, entryVars, strategy, stale, waiting>>

(* The metadata of an entry of another process has to wait for its size. *)
GetUnknown(c) ==
    LET k == task[c].key
    IN  /\ Answered(c, "get")
        /\ k \in stored \ meta
        /\ Continue(c, One("adopt", k))
        /\ UNCHANGED <<knownVars, entryVars, strategy, stale, waiting>>

GetMissing(c) ==
    LET k == task[c].key
    IN  /\ Answered(c, "get")
        /\ k \notin stored
        /\ IF k \in meta THEN Forget({k}) ELSE UNCHANGED knownVars
        /\ Continue(c, Idle)
        /\ UNCHANGED <<entryVars, strategy, stale, waiting>>

Adopted(c) ==
    LET k == task[c].key
    IN  /\ Answered(c, "adopt")
        /\ adopted' = adopted \cup {k}
        /\ timed' = timed \ {k}
        /\ index' = Touch(strategy, index, k)
        /\ Continue(c, Idle)
        /\ UNCHANGED <<entryVars, strategy, stale, waiting>>

SetDone(c) ==
    /\ Answered(c, "set")
    /\ Written(task[c].key)
    /\ Continue(c, [task[c] EXCEPT !.op = "size"])
    /\ UNCHANGED <<knownVars, strategy, stale, waiting>>

(* The end of writeEntry. *)
Sized(c) ==
    LET k == task[c].key
    IN  /\ Answered(c, "size")
        /\ timed' = timed \cup {k}
        /\ adopted' = adopted \ {k}
        /\ index' = Add(strategy, index, k)
        /\ Continue(c, Idle)
        /\ UNCHANGED <<entryVars, strategy, stale, waiting>>

Deleted(c) ==
    /\ Answered(c, "delete")
    /\ Dropped({task[c].key})
    /\ Forget({task[c].key})
    /\ Continue(c, Idle)
    /\ UNCHANGED <<strategy, stale, waiting>>

Evicted(c) ==
    /\ Answered(c, "evict")
    /\ Dropped(task[c].keys)
    /\ Forget(task[c].keys)
    /\ Continue(c, [task[c] EXCEPT !.op = "set", !.keys = {}])
    /\ UNCHANGED <<strategy, stale, waiting>>

(* The end of deleteEntries, whose deletion took the entries of S: of a      *)
(* deleteMatching, or of the recovery, which clears the metadata and lets    *)
(* those that wait send their commands.                                      *)
Finish(p, S) ==
    /\ stored' = stored \ S
    /\ missed' = (missed \cup IF p = Recovery THEN {} ELSE owed[p]) \ S
    /\ owed' = [c \in Calls |-> IF c = p THEN {} ELSE owed[c] \ S]
    /\ late' = IF p = Recovery THEN late \cap missed' ELSE late \ S
    /\ Forget(IF p = Recovery THEN Keys ELSE task[p].first)
    /\ task' = [task EXCEPT ![p] = Idle]
    /\ stale' = (stale /\ p # Recovery)
    /\ wire' = Tail(wire) \o IF p = Recovery THEN waiting ELSE <<>>
    /\ waiting' = IF p = Recovery THEN <<>> ELSE waiting
    /\ UNCHANGED strategy

(* A SCAN answers with the entries among some of the keys still to visit. *)
Scanned(p) ==
    /\ Answered(p, "keys")
    /\ \E V \in SUBSET task[p].keys \ {{}} :
        LET t == [task[p] EXCEPT !.keys = @ \ V, !.first = @ \cup (V \cap stored)]
        IN  Continue(p, IF t.keys = {} THEN [t EXCEPT !.op = "matching", !.keys = t.match]
                        ELSE t)
    /\ UNCHANGED <<knownVars, entryVars, strategy, stale, waiting>>

ScannedAgain(p) ==
    /\ Answered(p, "matching")
    /\ \E V \in SUBSET task[p].keys \ {{}} :
        LET t == [task[p] EXCEPT !.keys = @ \ V, !.found = @ \cup (V \cap stored)]
        IN  IF t.keys = {} /\ t.found = {}
            THEN Finish(p, {})
            ELSE /\ Continue(p, IF t.keys = {} THEN [t EXCEPT !.op = "del"] ELSE t)
                 /\ UNCHANGED <<knownVars, entryVars, strategy, stale, waiting>>

MatchingDeleted(p) ==
    /\ Answered(p, "del")
    /\ Finish(p, task[p].found)

-----------------------------------------------------------------------------
(* The command of a call fails, executed or not.  The call falls back; a     *)
(* write whose evictions failed goes on.                                     *)

FailedRead(c) ==
    /\ \E op \in {"get", "adopt", "size"} : Answered(c, op)
    /\ Continue(c, Idle)
    /\ stale' = TRUE
    /\ UNCHANGED <<knownVars, entryVars, strategy, waiting>>

FailedSet(c) ==
    /\ Answered(c, "set")
    /\ Written(task[c].key) \/ UNCHANGED entryVars
    /\ Continue(c, Idle)
    /\ stale' = TRUE
    /\ UNCHANGED <<knownVars, strategy, waiting>>

FailedDelete(c) ==
    /\ Answered(c, "delete")
    /\ Dropped({task[c].key}) \/ UNCHANGED entryVars
    /\ Continue(c, Idle)
    /\ stale' = TRUE
    /\ UNCHANGED <<knownVars, strategy, waiting>>

(* Of the evictions some succeed, and some of the others were executed. *)
FailedEvict(c) ==
    /\ Answered(c, "evict")
    /\ \E S \in SUBSET task[c].keys \ {task[c].keys} :
        /\ Forget(S)
        /\ \E executed \in SUBSET (task[c].keys \ S) : Dropped(S \cup executed)
    /\ Continue(c, [task[c] EXCEPT !.op = "set", !.keys = {}])
    /\ stale' = TRUE
    /\ UNCHANGED <<strategy, waiting>>

(* With the recovery fail those that wait for it. *)
FailedAlone(p) == {p}   \* mutant: leaves them waiting

FailedWith(p) == {p} \cup IF p = Recovery THEN Sent(waiting) ELSE {}

FailedMatching(p) ==
    LET failed == FailedWith(p)
    IN  /\ \E op \in {"keys", "matching", "del"} : Answered(p, op)
        /\ \E S \in {{}, IF task[p].op = "del" THEN task[p].found ELSE {}} :
            /\ stored' = stored \ S
            /\ missed' = (missed \cup UNION {owed[c] : c \in failed \ {Recovery}}) \ S
            /\ owed' = [c \in Calls |-> IF c \in failed THEN {} ELSE owed[c] \ S]
            /\ late' = IF p = Recovery THEN late \cap missed' ELSE late \ S
        /\ task' = [q \in Procs |-> IF q \in failed THEN Idle ELSE task[q]]
        /\ wire' = Tail(wire)
        /\ waiting' = IF p = Recovery THEN <<>> ELSE waiting
        /\ stale' = TRUE
        /\ UNCHANGED <<knownVars, strategy>>

(* Another process writes an entry into the memory it shares.  Bound: before *)
(* this one starts (Init), or where its recovery has passed.                 *)
OtherWrites ==
    /\ \E k \in Passed : Written(k)
    /\ UNCHANGED <<knownVars, strategy, stale, task, wire, waiting>>

(* The memory drops an entry: its time has passed. *)
Expire ==
    /\ \E k \in stored : Dropped({k})
    /\ UNCHANGED <<knownVars, strategy, stale, task, wire, waiting>>

Enter(c) == Fallback(c) \/ Start(c) \/ Write(c) \/ Join(c)

Answer ==
    \/ \E c \in Calls :
        \/ GetKnown(c) \/ GetUnknown(c) \/ GetMissing(c) \/ Adopted(c)
        \/ SetDone(c) \/ Sized(c) \/ Deleted(c) \/ Evicted(c)
        \/ FailedRead(c) \/ FailedSet(c) \/ FailedDelete(c) \/ FailedEvict(c)
    \/ \E p \in Procs :
        Scanned(p) \/ ScannedAgain(p) \/ MatchingDeleted(p) \/ FailedMatching(p)

(* The calls that are writing. *)
Writing == {c \in Calls : task[c].op \in {"evict", "set", "size"}}

Next ==
    /\ (\E c \in Calls : Enter(c)) \/ Answer \/ Expire \/ OtherWrites
    /\ added' = [c \in Calls |-> IF c \in Writing \cap Writing'
                                 THEN added[c] \cup (index'.nodes \ (index.nodes \cup {task[c].key}))
                                 ELSE {}]

Spec == Init /\ [][Next]_vars

-----------------------------------------------------------------------------
(* An entry that a deleteMatching should have deleted and left in the        *)
(* memory, because the memory was unavailable or a command of it failed,     *)
(* leaves the cache stale: guard() counts on it.  Except for an entry that   *)
(* another process wrote when the scan of a recovery had passed its key: if  *)
(* a deleteMatching is skipped before that recovery ends, its end clears     *)
(* _stale all the same.  No write of this process comes so late.             *)
MissedIsStale == missed \subseteq late \/ stale

(* Therefore a read never starts on an entry that a deleteMatching which has *)
(* returned should have deleted, also when that one was skipped.             *)
ReadsAreNotMissed ==
    [][\A c \in Sent(wire') \ Sent(wire) :
        task'[c].op = "get" => task'[c].key \notin missed' \ late']_vars

(* _entryMeta and _evictionIndex are kept in step by every call, failure and *)
(* recovery: an entry the process wrote is in both, so that it can be        *)
(* evicted, and an evicted entry is in neither.  The links reach every key   *)
(* of the index.                                                             *)
IndexInStep ==
    /\ timed \subseteq index.nodes
    /\ index.nodes \subseteq meta
    /\ strategy = "LFU" => index.nodes = meta
    /\ Sent(FromHead(index, Cardinality(Keys) + 1)) = index.nodes

(* Each write computes the excess before the others under way have added     *)
(* their entries, so together they may leave more than MAX_ITEMS in the      *)
(* index; and it evicts no entry in its grace period.  But of the entries    *)
(* the others have not added meanwhile it leaves MAX_ITEMS with its own at   *)
(* the most, or else only its own and those it found too young to evict.     *)
WriteMakesRoom ==
    [][\A c \in Calls :
        task[c].op = "size" /\ task'[c].op = "idle" /\ ~stale'
            => LET rest == index'.nodes \ added[c]
               IN  \/ Cardinality(rest) <= MaxItems
                   \/ rest \subseteq task[c].spared \cup {task[c].key}]_vars

(* The links of the index always spell an order of its keys, which a step    *)
(* changes as EvictionOrder says.                                            *)
Order == INSTANCE EvictionOrder WITH order <- FromHead(index, Cardinality(Keys))
OrderSpec == Order!Spec
=============================================================================
