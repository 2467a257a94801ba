----------------------------- MODULE CacheProofs -----------------------------
(*****************************************************************************)
(* Proofs about Cache for any calls, patterns, strategies and finite set of  *)
(* keys, whatever commands fail and however they overlap.                    *)
(*                                                                           *)
(* The inductive invariant has three parts. CallInv: a call is in the wire,  *)
(* waits for the recovery, or is idle. EntryInv: a deletion under way still  *)
(* has before it, or has found, the entries it owes, and the recovery all    *)
(* the entries that no other process wrote behind it; without it the end of  *)
(* a recovery might clear stale over an entry it has not deleted. IndexInv:  *)
(* the links spell a list, without which nothing can be said of what a       *)
(* removal leaves. WriteMakesRoom needs RoomFor too.                         *)
(*                                                                           *)
(* A step does one of a few things to the index (KnownStep) and one of a few *)
(* to the calls (CallStep); lemmas say that each action is one of them, and  *)
(* what each of them keeps.                                                  *)
(*****************************************************************************)
EXTENDS MCCache, EvictionIndexProofs

(* A command of a key has one, and the recovery is a deletion of all keys.   *)
KeyGiven(t) == t.op \in {"get", "adopt", "set", "size", "delete", "evict"} => t.key \in Keys

(* What the recovery does: it is idle or a deletion of all keys.             *)
Scans(t) ==
    /\ t.op \in {"idle", "keys", "matching", "del"}
    /\ t.op # "idle" => t.match = Keys

(* The tasks of a process.                                                   *)
TasksOf(p) == {t \in Task : KeyGiven(t) /\ (p = Recovery => Scans(t))}

(* The links of the index spell a list of its keys.                          *)
Spelled == \E q : Spells(index, q)

(* The invariant of the index.                                               *)
IndexInv == Spelled /\ IndexInStep

(* A call is in the wire, waits for the recovery, or is idle.                *)
CallInv ==
    /\ task \in [Procs -> Task] /\ \A p \in Procs : task[p] \in TasksOf(p)
    /\ wire \in Seq(Procs) /\ waiting \in Seq(Calls)
    /\ Once(wire) /\ Once(waiting) /\ Sent(wire) \cap Sent(waiting) = {}
    /\ Sent(wire) \cup Sent(waiting) = {p \in Procs : task[p].op # "idle"}
    /\ waiting # <<>> => task[Recovery].op # "idle"

(* The types of what is said about the entries. *)
EntryTypes ==
    /\ stored \subseteq Keys /\ missed \subseteq stored /\ late \subseteq Keys
    /\ owed \in [Calls -> SUBSET Keys]
    /\ stale \in BOOLEAN /\ strategy \in Kinds
    /\ added \in [Calls -> SUBSET Keys]

(* A deleteMatching has yet to find, or has found, what it owes, and the     *)
(* recovery all entries that are not late.                                   *)
Owes ==
    \A c \in Calls :
        /\ owed[c] \subseteq stored
        /\ task[c].op = "keys" => owed[c] \subseteq task[c].match
        /\ task[c].op = "matching" => owed[c] \subseteq task[c].keys \cup task[c].found
        /\ task[c].op = "del" => owed[c] \subseteq task[c].found
        /\ task[c].op \notin {"keys", "matching", "del"} => owed[c] = {}

(* The recovery has yet to find, or has found, all the entries but the late. *)
RecoveryFinds ==
    LET t == task[Recovery]
    IN  /\ t.op = "matching" => stored \subseteq t.keys \cup t.found \cup late
        /\ t.op = "del" => stored \subseteq t.found \cup late

(* The invariant of the entries.                                             *)
EntryInv == EntryTypes /\ Owes /\ RecoveryFinds /\ MissedIsStale

(* The other entries that were there when a write started, without those it  *)
(* is about to evict.                                                        *)
Rest(c) == index.nodes \ (task[c].keys \cup added[c] \cup {task[c].key})

(* A write leaves room for its entry, or only entries too young to evict,    *)
(* unless the cache went stale after it had counted them.                    *)
Fits(c) == Cardinality(Rest(c)) < MaxItems \/ Rest(c) \subseteq task[c].spared

RoomFor ==
    \A c \in Writing :
        /\ task[c].op # "evict" => task[c].keys = {}
        /\ task[c].op = "evict" \/ ~stale => Fits(c)

-----------------------------------------------------------------------------
(* What a step does to what the process knows.                               *)

(* Nothing, or one operation of the index with its change of the metadata.   *)
KnownStep ==
    \/ UNCHANGED knownVars
    \/ \E S : Forget(S)
    \/ \E k \in Keys :
        \/ /\ k \in meta
           /\ index' = Touch(strategy, index, k)
           /\ UNCHANGED <<timed, adopted>>
        \/ /\ index' = Touch(strategy, index, k)
           /\ adopted' = adopted \cup {k} /\ timed' = timed \ {k}
        \/ /\ index' = Add(strategy, index, k)
           /\ timed' = timed \cup {k} /\ adopted' = adopted \ {k}

(* Every step is one of these, and leaves the strategy.                      *)
LEMMA KnownChanges ==
    ASSUME CallInv, meta \subseteq Keys, Next
    PROVE  KnownStep /\ strategy' = strategy
<1> USE DEF KnownStep, knownVars, entryVars
<1>1. ASSUME NEW c \in Calls, Fallback(c) \/ Start(c) \/ Write(c) \/ Join(c)
      PROVE  KnownStep /\ strategy' = strategy
  BY <1>1 DEF Fallback, Start, Write, Join
<1>2. ASSUME NEW c \in Calls, GetKnown(c) \/ GetUnknown(c) \/ GetMissing(c)
      PROVE  KnownStep /\ strategy' = strategy
  <2>1. CASE GetKnown(c)
    BY <2>1 DEF GetKnown
  <2>2. CASE GetUnknown(c) \/ GetMissing(c)
    BY <2>2 DEF GetUnknown, GetMissing
  <2> QED
    BY <1>2, <2>1, <2>2
<1>3. ASSUME NEW c \in Calls, Adopted(c) \/ Sized(c)
      PROVE  KnownStep /\ strategy' = strategy
  <2>1. task[c].key \in Keys
    BY <1>3 DEF Adopted, Sized, Answered, CallInv, TasksOf, KeyGiven, Procs
  <2>2. CASE Adopted(c)
    BY <2>1, <2>2 DEF Adopted
  <2>3. CASE Sized(c)
    BY <2>1, <2>3 DEF Sized
  <2> QED
    BY <1>3, <2>2, <2>3
<1>4. ASSUME NEW c \in Calls, SetDone(c) \/ Deleted(c) \/ Evicted(c)
      PROVE  KnownStep /\ strategy' = strategy
  BY <1>4 DEF SetDone, Deleted, Evicted
<1>5. ASSUME NEW c \in Calls, FailedRead(c) \/ FailedSet(c) \/ FailedDelete(c) \/ FailedEvict(c)
      PROVE  KnownStep /\ strategy' = strategy
  BY <1>5 DEF FailedRead, FailedSet, FailedDelete, FailedEvict
<1>6. ASSUME NEW p \in Procs, Scanned(p) \/ ScannedAgain(p) \/ MatchingDeleted(p)
             \/ FailedMatching(p)
      PROVE  KnownStep /\ strategy' = strategy
  <2>1. ASSUME NEW S, Finish(p, S) PROVE KnownStep /\ strategy' = strategy
    BY <2>1 DEF Finish
  <2>2. CASE Scanned(p)
    BY <2>2 DEF Scanned
  <2>3. CASE ScannedAgain(p)
    BY <2>1, <2>3 DEF ScannedAgain
  <2>4. CASE MatchingDeleted(p)
    BY <2>1, <2>4 DEF MatchingDeleted
  <2>5. CASE FailedMatching(p)
    BY <2>5 DEF FailedMatching
  <2> QED
    BY <1>6, <2>2, <2>3, <2>4, <2>5
<1>7. ASSUME OtherWrites \/ Expire PROVE KnownStep /\ strategy' = strategy
  BY <1>7 DEF OtherWrites, Expire
<1> QED
  BY <1>1, <1>2, <1>3, <1>4, <1>5, <1>6, <1>7 DEF Next, Enter, Answer

(* The order of the index. *)
LEMMA OrderIs ==
    ASSUME NEW l, NEW q, Spells(l, q)
    PROVE  FromHead(l, Cardinality(Keys) + 1) = q /\ FromHead(l, Cardinality(Keys)) = q
<1>1. q \in Seq(Keys) /\ Distinct(q)
  BY DEF Spells
<1>2. Cardinality(Keys) \in Nat /\ Len(q) <= Cardinality(Keys) /\ Len(q) \in Nat
  BY <1>1, LengthOf
<1>3. Cardinality(Keys) + 1 \in Nat /\ Len(q) <= Cardinality(Keys) + 1
  BY <1>2
<1>4. FromHead(l, Cardinality(Keys) + 1) = q
  BY <1>1, <1>3, WalkIs, PrefixFull
<1>5. FromHead(l, Cardinality(Keys)) = q
  BY <1>1, <1>2, WalkIs, PrefixFull
<1> QED
  BY <1>4, <1>5

(* The two names for what is in a sequence.                                  *)
LEMMA SentIsListed == ASSUME NEW S, NEW q \in Seq(S) PROVE Sent(q) = Listed(q)
BY LenProperties DEF Sent, Listed

(* Each of them keeps the metadata and the index in step, and changes the    *)
(* order of the index by one move or by removals.                            *)
LEMMA IndexSteps ==
    ASSUME NEW q, Spells(index, q), IndexInStep,
           strategy \in Strategies, timed \subseteq Keys, adopted \subseteq Keys \ timed,
           KnownStep, strategy' = strategy
    PROVE  /\ timed' \subseteq Keys /\ adopted' \subseteq Keys \ timed' /\ IndexInStep'
           /\ \E r : Spells(index', r) /\ (Thins(q, r) \/ \E k \in Keys : Moves(q, r, k))
<1>1. timed \subseteq Listed(q) /\ Listed(q) \subseteq meta /\ (strategy = "LFU" => Listed(q) = meta)
  BY DEF IndexInStep, Spells
<1>2. ASSUME NEW r, Spells(index', r), timed' \subseteq Listed(r), Listed(r) \subseteq meta',
             strategy = "LFU" => Listed(r) = meta'
      PROVE  IndexInStep'
  <2>1. Sent(FromHead(index', Cardinality(Keys) + 1)) = Listed(r)
    BY <1>2, OrderIs, SentIsListed DEF Spells
  <2>2. index'.nodes = Listed(r)
    BY <1>2 DEF Spells
  <2> QED
    BY <1>2, <2>1, <2>2 DEF IndexInStep
<1>3. CASE UNCHANGED knownVars
  BY <1>3, ThinsItself DEF knownVars, IndexInStep, meta
<1>4. ASSUME NEW S, Forget(S)
      PROVE  /\ timed' \subseteq Keys /\ adopted' \subseteq Keys \ timed' /\ IndexInStep'
             /\ \E r : Spells(index', r) /\ Thins(q, r)
  <2>1. PICK r : Spells(index', r) /\ Thins(q, r) /\ Listed(r) = Listed(q) \ S
    BY <1>4, RemoveAllSpells DEF Forget
  <2>2. timed' \subseteq Listed(r) /\ Listed(r) \subseteq meta'
        /\ (strategy = "LFU" => Listed(r) = meta')
    BY <1>1, <1>4, <2>1 DEF Forget, meta
  <2> QED
    BY <1>2, <1>4, <2>1, <2>2 DEF Forget
<1>5. ASSUME NEW k \in Keys, index' = Touch(strategy, index, k),
             \/ k \in meta /\ UNCHANGED <<timed, adopted>>
             \/ adopted' = adopted \cup {k} /\ timed' = timed \ {k}
      PROVE  /\ timed' \subseteq Keys /\ adopted' \subseteq Keys \ timed' /\ IndexInStep'
             /\ \E r : Spells(index', r) /\ Moves(q, r, k)
  <2>1. PICK r : /\ Spells(index', r) /\ Moves(q, r, k)
                 /\ Listed(r) = IF strategy = "LFU" THEN Listed(q) \cup {k} ELSE Listed(q)
    BY <1>5, TouchSpells
  <2>2. timed' \subseteq Listed(r) /\ Listed(r) \subseteq meta'
        /\ (strategy = "LFU" => Listed(r) = meta')
    BY <1>1, <1>5, <2>1 DEF meta
  <2> QED
    BY <1>2, <1>5, <2>1, <2>2
<1>6. ASSUME NEW k \in Keys, index' = Add(strategy, index, k),
             timed' = timed \cup {k}, adopted' = adopted \ {k}
      PROVE  /\ timed' \subseteq Keys /\ adopted' \subseteq Keys \ timed' /\ IndexInStep'
             /\ \E r : Spells(index', r) /\ Moves(q, r, k)
  <2>1. PICK r : Spells(index', r) /\ Moves(q, r, k) /\ Listed(r) = Listed(q) \cup {k}
    BY <1>6, AddSpells
  <2>2. timed' \subseteq Listed(r) /\ Listed(r) \subseteq meta'
        /\ (strategy = "LFU" => Listed(r) = meta')
    BY <1>1, <1>6, <2>1 DEF meta
  <2> QED
    BY <1>2, <1>6, <2>1, <2>2
<1> QED
  BY <1>3, <1>4, <1>5, <1>6 DEF KnownStep

-----------------------------------------------------------------------------
(* The calls in the wire. *)

(* A call that is put at the end is one more.                                *)
LEMMA SentAppend ==
    ASSUME NEW S, NEW s \in Seq(S), NEW e \in S
    PROVE  /\ Sent(Append(s, e)) = Sent(s) \cup {e}
           /\ Once(s) /\ e \notin Sent(s) => Once(Append(s, e))
<1>1. /\ Len(s) \in Nat /\ DOMAIN s = 1 .. Len(s)
      /\ DOMAIN Append(s, e) = 1 .. (Len(s) + 1)
      /\ \A i \in 1 .. Len(s) : Append(s, e)[i] = s[i]
      /\ Append(s, e)[Len(s) + 1] = e
  BY AppendProperties, LenProperties
<1>2. Sent(Append(s, e)) = Sent(s) \cup {e}
  <2>1. ASSUME NEW i \in DOMAIN Append(s, e) PROVE Append(s, e)[i] \in Sent(s) \cup {e}
    <3>1. i \in 1 .. Len(s) \/ i = Len(s) + 1
      BY <1>1
    <3> QED
      BY <1>1, <3>1 DEF Sent
  <2>2. ASSUME NEW i \in DOMAIN s PROVE s[i] \in Sent(Append(s, e))
    <3>1. i \in DOMAIN Append(s, e) /\ Append(s, e)[i] = s[i]
      BY <1>1
    <3> QED
      BY <3>1 DEF Sent
  <2>3. e \in Sent(Append(s, e))
    BY <1>1 DEF Sent
  <2> QED
    BY <2>1, <2>2, <2>3 DEF Sent
<1>3. ASSUME Once(s), e \notin Sent(s) PROVE Once(Append(s, e))
  BY <1>1, <1>3 DEF Once, Sent
<1> QED
  BY <1>2, <1>3

(* A call that is answered is one less.                                      *)
LEMMA SentTail ==
    ASSUME NEW S, NEW s \in Seq(S), s # <<>>, Once(s)
    PROVE  /\ Head(s) \in Sent(s) /\ Tail(s) \in Seq(S)
           /\ Sent(Tail(s)) = Sent(s) \ {Head(s)} /\ Once(Tail(s))
<1>1. /\ Len(s) \in Nat \ {0} /\ DOMAIN s = 1 .. Len(s) /\ Head(s) = s[1]
      /\ Tail(s) \in Seq(S) /\ DOMAIN Tail(s) = 1 .. (Len(s) - 1)
      /\ \A i \in 1 .. (Len(s) - 1) : Tail(s)[i] = s[i + 1]
  BY HeadTailProperties, LenProperties, EmptySeq
<1>2. ASSUME NEW i \in DOMAIN Tail(s) PROVE Tail(s)[i] \in Sent(s) /\ Tail(s)[i] # Head(s)
  BY <1>1 DEF Once, Sent
<1>3. ASSUME NEW i \in DOMAIN s, s[i] # Head(s) PROVE s[i] \in Sent(Tail(s))
  <2>1. i - 1 \in DOMAIN Tail(s) /\ Tail(s)[i - 1] = s[i]
    BY <1>1, <1>3
  <2> QED
    BY <2>1 DEF Sent
<1>4. Once(Tail(s))
  BY <1>1 DEF Once
<1>5. Head(s) \in Sent(s)
  BY <1>1 DEF Sent
<1> QED
  BY <1>1, <1>2, <1>3, <1>4, <1>5 DEF Sent

(* The calls that waited come after those in the wire.                       *)
LEMMA SentConcat ==
    ASSUME NEW S, NEW s \in Seq(S), NEW t \in Seq(S)
    PROVE  /\ s \o t \in Seq(S) /\ Sent(s \o t) = Sent(s) \cup Sent(t)
           /\ Once(s) /\ Once(t) /\ Sent(s) \cap Sent(t) = {} => Once(s \o t)
<1>1. /\ s \o t \in Seq(S) /\ Len(s) \in Nat /\ Len(t) \in Nat
      /\ DOMAIN s = 1 .. Len(s) /\ DOMAIN t = 1 .. Len(t)
      /\ DOMAIN (s \o t) = 1 .. (Len(s) + Len(t))
      /\ \A i \in 1 .. Len(s) : (s \o t)[i] = s[i]
      /\ \A i \in (Len(s) + 1) .. (Len(s) + Len(t)) :
            i - Len(s) \in 1 .. Len(t) /\ (s \o t)[i] = t[i - Len(s)]
  BY ConcatProperties, LenProperties
<1>2. Sent(s \o t) = Sent(s) \cup Sent(t)
  <2>1. ASSUME NEW i \in DOMAIN (s \o t) PROVE (s \o t)[i] \in Sent(s) \cup Sent(t)
    <3>1. i \in 1 .. Len(s) \/ i \in (Len(s) + 1) .. (Len(s) + Len(t))
      BY <1>1
    <3> QED
      BY <1>1, <3>1 DEF Sent
  <2>2. ASSUME NEW i \in DOMAIN s PROVE s[i] \in Sent(s \o t)
    <3>1. i \in DOMAIN (s \o t) /\ (s \o t)[i] = s[i]
      BY <1>1
    <3> QED
      BY <3>1 DEF Sent
  <2>3. ASSUME NEW i \in DOMAIN t PROVE t[i] \in Sent(s \o t)
    <3>1. /\ i + Len(s) \in (Len(s) + 1) .. (Len(s) + Len(t)) /\ (i + Len(s)) - Len(s) = i
          /\ i + Len(s) \in DOMAIN (s \o t)
      BY <1>1
    <3>2. (s \o t)[i + Len(s)] = t[i]
      BY <1>1, <3>1
    <3> QED
      BY <3>1, <3>2 DEF Sent
  <2> QED
    BY <2>1, <2>2, <2>3 DEF Sent
<1>3. ASSUME Once(s), Once(t), Sent(s) \cap Sent(t) = {} PROVE Once(s \o t)
  <2> SUFFICES ASSUME NEW i \in DOMAIN (s \o t), NEW j \in DOMAIN (s \o t),
                      (s \o t)[i] = (s \o t)[j]
               PROVE  i = j
    BY DEF Once
  <2>1. /\ i \in 1 .. Len(s) \/ i \in (Len(s) + 1) .. (Len(s) + Len(t))
        /\ j \in 1 .. Len(s) \/ j \in (Len(s) + 1) .. (Len(s) + Len(t))
    BY <1>1
  <2>2. CASE i \in 1 .. Len(s) /\ j \in 1 .. Len(s)
    BY <1>1, <1>3, <2>2 DEF Once
  <2>3. CASE /\ i \in (Len(s) + 1) .. (Len(s) + Len(t))
             /\ j \in (Len(s) + 1) .. (Len(s) + Len(t))
    <3>1. i - Len(s) = j - Len(s)
      BY <1>1, <1>3, <2>3 DEF Once
    <3> QED
      BY <1>1, <2>3, <3>1
  <2>4. ASSUME NEW a \in 1 .. Len(s), NEW b \in (Len(s) + 1) .. (Len(s) + Len(t)),
               (s \o t)[a] = (s \o t)[b]
        PROVE  FALSE
    <3>1. s[a] \in Sent(s) /\ t[b - Len(s)] \in Sent(t) /\ s[a] = t[b - Len(s)]
      BY <1>1, <2>4 DEF Sent
    <3> QED
      BY <1>3, <3>1
  <2> QED
    BY <2>1, <2>2, <2>3, <2>4
<1> QED
  BY <1>1, <1>2, <1>3

(* No call is in the empty sequence.                                         *)
LEMMA SentEmpty == Sent(<<>>) = {} /\ Once(<<>>)
BY DEF Sent, Once

(* What a step does to the calls.                                            *)
Starts(c, t) ==
    /\ task[c].op = "idle" /\ t.op # "idle"
    /\ task' = [task EXCEPT ![c] = t]
    /\ wire' = Append(wire, c)
    /\ waiting' = waiting

(* A call waits for the recovery, which it may start.                        *)
Joins(c, t) ==
    /\ task[c].op = "idle" /\ t.op # "idle"
    /\ task' = [task EXCEPT ![c] = t, ![Recovery] = IF @.op = "idle" THEN Scan(Keys) ELSE @]
    /\ wire' = IF task[Recovery].op = "idle" THEN Append(wire, Recovery) ELSE wire
    /\ waiting' = Append(waiting, c)

(* An answered call goes on with t.                                          *)
Continues(p, t) ==
    /\ wire # <<>> /\ p = Head(wire)
    /\ p = Recovery => t.op # "idle"
    /\ Continue(p, t)
    /\ waiting' = waiting

(* A deletion ends; if it is the recovery, those that wait go on.            *)
Finishes(p) ==
    /\ wire # <<>> /\ p = Head(wire)
    /\ task' = [task EXCEPT ![p] = Idle]
    /\ wire' = Tail(wire) \o IF p = Recovery THEN waiting ELSE <<>>
    /\ waiting' = IF p = Recovery THEN <<>> ELSE waiting

(* A deletion fails, with those that wait for it.                            *)
Fails(p) ==
    /\ wire # <<>> /\ p = Head(wire)
    /\ task' = [q \in Procs |-> IF q \in FailedWith(p) THEN Idle ELSE task[q]]
    /\ wire' = Tail(wire)
    /\ waiting' = IF p = Recovery THEN <<>> ELSE waiting

(* Nothing, or one of these.                                                 *)
CallStep ==
    \/ UNCHANGED <<task, wire, waiting>>
    \/ \E c \in Calls, t \in Task : KeyGiven(t) /\ (Starts(c, t) \/ Joins(c, t))
    \/ \E p \in Procs, t \in Task : t \in TasksOf(p) /\ Continues(p, t)
    \/ \E p \in Procs : Finishes(p) \/ Fails(p)

(* No call is there at the start.                                            *)
LEMMA InitCalls == Init => CallInv
BY SentEmpty DEF Init, CallInv, Idle, Task, TasksOf, KeyGiven, Scans

(* Each of them loses no call: one with a command to be answered is in the   *)
(* wire once, and one that waits is not in the wire.                         *)
LEMMA CallInvStep == ASSUME CallInv, CallStep PROVE CallInv'
<1> USE DEF CallInv
<1>0. /\ Recovery \notin Calls /\ Procs = Calls \cup {Recovery}
      /\ Idle \in Task /\ Idle.op = "idle" /\ \A p : Idle \in TasksOf(p)
  BY CacheAssumption DEF Procs, Idle, Task, TasksOf, KeyGiven, Scans
<1>1. CASE UNCHANGED <<task, wire, waiting>>
  BY <1>1
<1>2. ASSUME NEW c \in Calls, NEW t \in Task, KeyGiven(t), Starts(c, t) PROVE CallInv'
  <2>1. c \in Procs /\ c # Recovery /\ t \in TasksOf(c)
    BY <1>0, <1>2 DEF TasksOf
  <2>2. c \notin Sent(wire) /\ c \notin Sent(waiting)
    BY <1>2, <2>1 DEF Starts
  <2>3. /\ wire' \in Seq(Procs) /\ Sent(wire') = Sent(wire) \cup {c} /\ Once(wire')
    BY <1>2, <2>1, <2>2, SentAppend DEF Starts
  <2> QED
    BY <1>2, <2>1, <2>2, <2>3 DEF Starts
<1>3. ASSUME NEW c \in Calls, NEW t \in Task, KeyGiven(t), Joins(c, t) PROVE CallInv'
  <2>1. c \in Procs /\ c # Recovery /\ t \in TasksOf(c) /\ Recovery \in Procs
    BY <1>0, <1>3 DEF TasksOf
  <2>2. c \notin Sent(wire) /\ c \notin Sent(waiting)
    BY <1>3, <2>1 DEF Joins
  <2>3. /\ waiting' \in Seq(Calls) /\ Sent(waiting') = Sent(waiting) \cup {c} /\ Once(waiting')
    BY <1>3, <2>1, <2>2, SentAppend DEF Joins
  <2>4. Scan(Keys) \in TasksOf(Recovery) /\ Scan(Keys) \in Task /\ Scan(Keys).op = "keys"
    BY DEF Scan, Idle, Task, TasksOf, KeyGiven, Scans
  <2>5. CASE task[Recovery].op = "idle"
    <3>1. Recovery \notin Sent(wire) /\ Recovery \notin Sent(waiting)
      BY <2>1, <2>5
    <3>2. /\ wire' \in Seq(Procs) /\ Sent(wire') = Sent(wire) \cup {Recovery} /\ Once(wire')
      BY <1>3, <2>1, <2>5, <3>1, SentAppend DEF Joins
    <3>3. task' = [task EXCEPT ![c] = t, ![Recovery] = Scan(Keys)]
      BY <1>3, <2>1, <2>5 DEF Joins
    <3>4. /\ task' \in [Procs -> Task] /\ \A q \in Procs : task'[q] \in TasksOf(q)
          /\ \A q \in Procs : task'[q].op # "idle" <=>
                task[q].op # "idle" \/ q \in {c, Recovery}
      BY <1>3, <2>1, <2>4, <3>3 DEF Joins
    <3>5. wire' \in Seq(Procs) /\ Once(wire') /\ waiting' \in Seq(Calls) /\ Once(waiting')
          /\ Sent(wire') \cap Sent(waiting') = {} /\ task'[Recovery].op # "idle"
      BY <2>1, <2>2, <2>3, <3>1, <3>2, <3>4
    <3>6. Sent(wire') \cup Sent(waiting') = {q \in Procs : task'[q].op # "idle"}
      <4>1. Sent(wire') \cup Sent(waiting')
               = {q \in Procs : task[q].op # "idle"} \cup {c, Recovery}
        BY <2>3, <3>2
      <4> QED
        BY <2>1, <3>4, <4>1
    <3> QED
      BY <3>4, <3>5, <3>6
  <2>6. CASE task[Recovery].op # "idle"
    <3>1. wire' = wire /\ task' = [task EXCEPT ![c] = t]
      BY <1>3, <2>1, <2>6 DEF Joins
    <3>2. /\ task' \in [Procs -> Task] /\ \A q \in Procs : task'[q] \in TasksOf(q)
          /\ \A q \in Procs : task'[q].op # "idle" <=> task[q].op # "idle" \/ q = c
      BY <1>3, <2>1, <3>1 DEF Joins
    <3>3. wire' \in Seq(Procs) /\ Once(wire') /\ waiting' \in Seq(Calls) /\ Once(waiting')
          /\ Sent(wire') \cap Sent(waiting') = {} /\ task'[Recovery].op # "idle"
      BY <2>1, <2>2, <2>3, <2>6, <3>1, <3>2
    <3>4. Sent(wire') \cup Sent(waiting') = {q \in Procs : task'[q].op # "idle"}
      <4>1. Sent(wire') \cup Sent(waiting') = {q \in Procs : task[q].op # "idle"} \cup {c}
        BY <2>3, <3>1
      <4> QED
        BY <2>1, <3>2, <4>1
    <3> QED
      BY <3>2, <3>3, <3>4
  <2> QED
    BY <2>5, <2>6
<1>4. ASSUME NEW p \in Procs, wire # <<>>, p = Head(wire)
      PROVE  /\ p \in Sent(wire) /\ p \notin Sent(waiting) /\ task[p].op # "idle"
             /\ Tail(wire) \in Seq(Procs) /\ Once(Tail(wire))
             /\ Sent(Tail(wire)) = Sent(wire) \ {p}
  BY <1>4, SentTail
<1>5. ASSUME NEW p \in Procs, NEW t \in Task, t \in TasksOf(p), Continues(p, t) PROVE CallInv'
  <2>1. /\ p \in Sent(wire) /\ p \notin Sent(waiting) /\ task[p].op # "idle"
        /\ Tail(wire) \in Seq(Procs) /\ Once(Tail(wire))
        /\ Sent(Tail(wire)) = Sent(wire) \ {p}
    BY <1>4, <1>5 DEF Continues
  <2>2. task' = [task EXCEPT ![p] = t] /\ waiting' = waiting
    BY <1>5 DEF Continues, Continue
  <2>3. CASE t.op = "idle"
    <3>1. wire' = Tail(wire) /\ p # Recovery
      BY <1>5, <2>3 DEF Continues, Continue
    <3> QED
      BY <1>5, <2>1, <2>2, <2>3, <3>1
  <2>4. CASE t.op # "idle"
    <3>1. wire' = Append(Tail(wire), p)
      BY <1>5, <2>4 DEF Continues, Continue
    <3>2. wire' \in Seq(Procs) /\ Sent(wire') = Sent(wire) /\ Once(wire')
      <4>1. p \notin Sent(Tail(wire))
        BY <2>1
      <4>2. /\ Append(Tail(wire), p) \in Seq(Procs) /\ Once(Append(Tail(wire), p))
            /\ Sent(Append(Tail(wire), p)) = Sent(Tail(wire)) \cup {p}
        <5>1. PICK w \in Seq(Procs) : w = Tail(wire)
          BY <2>1
        <5> HIDE DEF CallInv
        <5>2. /\ Append(w, p) \in Seq(Procs) /\ Sent(Append(w, p)) = Sent(w) \cup {p}
              /\ Once(w) /\ p \notin Sent(w) => Once(Append(w, p))
          BY SentAppend
        <5> QED
          BY <2>1, <4>1, <5>1, <5>2
      <4> QED
        BY <2>1, <3>1, <4>2
    <3> QED
      BY <1>5, <2>1, <2>2, <2>4, <3>2
  <2> QED
    BY <2>3, <2>4
<1>6. ASSUME NEW p \in Procs, Finishes(p) PROVE CallInv'
  <2>1. /\ p \in Sent(wire) /\ p \notin Sent(waiting) /\ task[p].op # "idle"
        /\ Tail(wire) \in Seq(Procs) /\ Once(Tail(wire))
        /\ Sent(Tail(wire)) = Sent(wire) \ {p}
    BY <1>4, <1>6 DEF Finishes
  <2>2. CASE p = Recovery
    <3>1. wire' = Tail(wire) \o waiting /\ waiting' = <<>> /\ task' = [task EXCEPT ![p] = Idle]
      BY <1>6, <2>2 DEF Finishes
    <3>2. waiting \in Seq(Procs)
      BY <1>0, SeqMonotonic
    <3>3. /\ wire' \in Seq(Procs) /\ Sent(wire') = (Sent(wire) \ {p}) \cup Sent(waiting)
          /\ Once(wire')
      <4>1. Sent(Tail(wire)) \cap Sent(waiting) = {}
        BY <2>1
      <4>2. /\ Tail(wire) \o waiting \in Seq(Procs) /\ Once(Tail(wire) \o waiting)
            /\ Sent(Tail(wire) \o waiting) = Sent(Tail(wire)) \cup Sent(waiting)
        <5>1. PICK w \in Seq(Procs) : w = Tail(wire)
          BY <2>1
        <5> HIDE DEF CallInv
        <5>2. /\ w \o waiting \in Seq(Procs) /\ Sent(w \o waiting) = Sent(w) \cup Sent(waiting)
              /\ Once(w) /\ Once(waiting) /\ Sent(w) \cap Sent(waiting) = {}
                    => Once(w \o waiting)
          BY <3>2, SentConcat
        <5>3. Once(w) /\ Sent(w) \cap Sent(waiting) = {} /\ Once(waiting)
          BY <2>1, <4>1, <5>1 DEF CallInv
        <5> QED
          BY <5>1, <5>2, <5>3
      <4> QED
        BY <2>1, <3>1, <4>2
    <3> QED
      BY <1>0, <2>1, <3>1, <3>3, SentEmpty
  <2>3. CASE p # Recovery
    <3>1. Tail(wire) \o <<>> = Tail(wire)
      BY <2>1, ConcatEmptySeq
    <3>2. wire' = Tail(wire) /\ waiting' = waiting /\ task' = [task EXCEPT ![p] = Idle]
      BY <1>6, <2>3, <3>1 DEF Finishes
    <3> QED
      BY <1>0, <2>1, <2>3, <3>2
  <2> QED
    BY <2>2, <2>3
<1>7. ASSUME NEW p \in Procs, Fails(p) PROVE CallInv'
  <2>1. /\ p \in Sent(wire) /\ p \notin Sent(waiting) /\ task[p].op # "idle"
        /\ Tail(wire) \in Seq(Procs) /\ Once(Tail(wire))
        /\ Sent(Tail(wire)) = Sent(wire) \ {p}
    BY <1>4, <1>7 DEF Fails
  <2>2. /\ task' \in [Procs -> Task] /\ \A q \in Procs : task'[q] \in TasksOf(q)
        /\ \A q \in Procs : task'[q].op # "idle" <=>
              q \notin FailedWith(p) /\ task[q].op # "idle"
    BY <1>0, <1>7 DEF Fails
  <2>3. CASE p = Recovery
    <3>1. FailedWith(p) = {p} \cup Sent(waiting) /\ waiting' = <<>> /\ wire' = Tail(wire)
      BY <1>7, <2>3 DEF Fails, FailedWith
    <3> QED
      BY <2>1, <2>2, <3>1, SentEmpty
  <2>4. CASE p # Recovery
    <3>1. FailedWith(p) = {p} /\ waiting' = waiting /\ wire' = Tail(wire)
      BY <1>7, <2>4 DEF Fails, FailedWith
    <3> QED
      BY <1>0, <2>1, <2>2, <2>4, <3>1
  <2> QED
    BY <2>3, <2>4
<1> QED
  BY <1>1, <1>2, <1>3, <1>5, <1>6, <1>7 DEF CallStep

(* The keys to evict are keys of the index, as many as are too many or all   *)
(* that are old enough.                                                      *)
LEMMA CandidatesSize ==
    ASSUME NEW l, l.nodes \subseteq Keys, NEW n \in Int, NEW young,
           NEW S \in Candidates(l, n, young)
    PROVE  /\ S \subseteq l.nodes \ young
           /\ n <= 0 => S = {}
           /\ n > 0 => Cardinality(S) = IF n < Cardinality(l.nodes \ young) THEN n
                                        ELSE Cardinality(l.nodes \ young)
<1>1. CASE n <= 0
  BY <1>1 DEF Candidates
<1>2. CASE n > 0
  BY <1>2 DEF Candidates
<1> QED
  BY <1>1, <1>2

(* The young entries are keys.                                               *)
LEMMA YoungKeys ==
    ASSUME NEW l, l.nodes \subseteq Keys, NEW n, NEW young \in Young(l, n)
    PROVE  young \subseteq Keys
BY DEF Young

(* A request is the first command of a key, or a scan.                       *)
LEMMA RequestsOK ==
    ASSUME NEW t \in Requests
    PROVE  /\ t \in Task /\ KeyGiven(t) /\ t.op # "idle"
           /\ t.op = "keys" \/ (t.op \in {"get", "set", "delete"} /\ t.match = {})
<1>1. ASSUME NEW op \in {"get", "set", "delete"}, NEW k \in Keys, t = One(op, k)
      PROVE  t \in Task /\ KeyGiven(t) /\ t.op \in {"get", "set", "delete"} /\ t.match = {}
  BY <1>1 DEF One, Idle, Task, KeyGiven
<1>2. ASSUME NEW M \in Patterns, t = Scan(M)
      PROVE  t \in Task /\ KeyGiven(t) /\ t.op = "keys"
  BY <1>2, CacheAssumption DEF Scan, Idle, Task, KeyGiven
<1> QED
  BY <1>1, <1>2 DEF Requests

(* The later command of a read is a task.                                    *)
LEMMA AdoptOK ==
    ASSUME NEW k \in Keys PROVE One("adopt", k) \in Task /\ KeyGiven(One("adopt", k))
BY DEF One, Idle, Task, KeyGiven

(* A write starts with its evictions or with the set.                        *)
LEMMA FirstOps ==
    ASSUME NEW k, NEW S, NEW young
    PROVE  /\ FirstOf(k, S, young).op = (IF S = {} THEN "set" ELSE "evict")
           /\ FirstOf(k, S, young).key = k /\ FirstOf(k, S, young).keys = S
           /\ FirstOf(k, S, young).spared = young \ {k}
BY DEF FirstOf, One, Idle

(* Every step is one of these.                                               *)
LEMMA CallChanges ==
    ASSUME CallInv, Spelled, Spelled', stored \subseteq Keys, meta \subseteq Keys, Next
    PROVE  CallStep
<1> USE DEF CallInv
<1>0. /\ Recovery \notin Calls /\ Procs = Calls \cup {Recovery}
      /\ Idle \in Task /\ Idle.op = "idle" /\ \A p : Idle \in TasksOf(p)
      /\ \A c \in Calls, t \in Task : KeyGiven(t) => t \in TasksOf(c)
  BY CacheAssumption DEF Procs, Idle, Task, TasksOf, KeyGiven, Scans
<1>1. ASSUME NEW c \in Calls, Fallback(c) PROVE CallStep
  BY <1>1 DEF Fallback, CallStep
<1>2. ASSUME NEW c \in Calls, Start(c) PROVE CallStep
  BY <1>2, RequestsOK DEF Start, CallStep, Starts
<1>3. ASSUME NEW c \in Calls, Write(c) PROVE CallStep
  <2>1. PICK k \in Keys, gone \in SUBSET Expirable :
           /\ Forget(gone)
           /\ \E young \in Young(index', ExcessAfter(gone)) :
              \E S \in Candidates(index', ExcessAfter(gone), young) :
                task' = [task EXCEPT ![c] = FirstOf(k, S, young)]
    BY <1>3 DEF Write
  <2>2. PICK young \in Young(index', ExcessAfter(gone)) :
           \E S \in Candidates(index', ExcessAfter(gone), young) :
               task' = [task EXCEPT ![c] = FirstOf(k, S, young)]
    BY <2>1
  <2>3. PICK S \in Candidates(index', ExcessAfter(gone), young) :
           task' = [task EXCEPT ![c] = FirstOf(k, S, young)]
    BY <2>2
  <2>4. ExcessAfter(gone) \in Int
    <3>1. IsFiniteSet(meta \ gone)
      BY FS_Subset, EvictionIndexAssumption
    <3> QED
      BY <3>1, FS_CardinalityType, CacheAssumption DEF ExcessAfter
  <2>5. S \in SUBSET Keys /\ young \in SUBSET Keys
    <3>1. index'.nodes \subseteq Keys
      BY DEF Spelled, Spells, Index
    <3>2. S \subseteq index'.nodes
      <4> DEFINE l == index'
                 n == ExcessAfter(gone)
      <4>1. S \in Candidates(l, n, young)
        OBVIOUS
      <4>2. l.nodes \subseteq Keys
        BY <3>1
      <4>3. n \in Int
        BY <2>4
      <4> HIDE DEF l, n, CallInv
      <4>4. S \subseteq l.nodes \ young
        BY <4>1, <4>2, <4>3, CandidatesSize
      <4> QED
        BY <4>4 DEF l
    <3>3. young \subseteq Keys
      BY <3>1, YoungKeys
    <3> QED
      BY <3>1, <3>2, <3>3
  <2> DEFINE op == IF S = {} THEN "set" ELSE "evict"
             t == FirstOf(k, S, young)
  <2>6. t \in Task /\ KeyGiven(t) /\ t.op # "idle"
    <3>1. op \in {"set", "evict"}
      OBVIOUS
    <3>2. t = [One(op, k) EXCEPT !.keys = S, !.spared = young \ {k}]
      BY DEF FirstOf
    <3> HIDE DEF op, t
    <3> QED
      BY <2>5, <3>1, <3>2 DEF One, Idle, Task, KeyGiven
  <2>7. Starts(c, t)
    BY <1>3, <2>6, <2>3 DEF Write, Starts
  <2> QED
    BY <2>6, <2>7 DEF CallStep
<1>4. ASSUME NEW c \in Calls, Join(c) PROVE CallStep
  BY <1>4, RequestsOK DEF Join, CallStep, Joins
<1>5. ASSUME NEW c \in Calls, Continues(c, Idle) PROVE CallStep
  BY <1>0, <1>5 DEF CallStep
<1>6. ASSUME NEW c \in Calls, GetKnown(c) \/ GetMissing(c) \/ Adopted(c) \/ Sized(c)
             \/ Deleted(c) \/ FailedRead(c) \/ FailedSet(c) \/ FailedDelete(c)
      PROVE  Continues(c, Idle)
  BY <1>0, <1>6 DEF GetKnown, GetMissing, Adopted, Sized, Deleted, FailedRead, FailedSet,
                    FailedDelete, Answered, Continues
<1>7. ASSUME NEW c \in Calls, NEW t \in Task, KeyGiven(t), Continues(c, t) PROVE CallStep
  BY <1>0, <1>7 DEF CallStep
<1>8. ASSUME NEW c \in Calls, GetUnknown(c) PROVE CallStep
  <2>1. task[c].key \in Keys /\ Continues(c, One("adopt", task[c].key))
    BY <1>0, <1>8 DEF GetUnknown, Answered, Continues
  <2> QED
    BY <1>7, <2>1, AdoptOK
<1>9. ASSUME NEW c \in Calls, SetDone(c) PROVE CallStep
  <2> DEFINE t == [task[c] EXCEPT !.op = "size"]
  <2>1. task[c] \in Task /\ task[c].key \in Keys
    BY <1>0, <1>9 DEF SetDone, Answered, TasksOf, KeyGiven
  <2>2. t \in Task /\ t.op = "size" /\ t.key = task[c].key
    BY <2>1 DEF Task
  <2>3. Continue(c, t) /\ waiting' = waiting /\ wire # <<>> /\ c = Head(wire)
    BY <1>9 DEF SetDone, Answered
  <2> HIDE DEF t
  <2>4. KeyGiven(t) /\ Continues(c, t)
    BY <2>1, <2>2, <2>3 DEF KeyGiven, Continues
  <2> QED
    BY <1>7, <2>2, <2>4
<1>10. ASSUME NEW c \in Calls, Evicted(c) \/ FailedEvict(c) PROVE CallStep
  <2> DEFINE t == [task[c] EXCEPT !.op = "set", !.keys = {}]
  <2>1. task[c] \in Task /\ task[c].key \in Keys
    BY <1>0, <1>10 DEF Evicted, FailedEvict, Answered, TasksOf, KeyGiven
  <2>2. t \in Task /\ t.op = "set" /\ t.key = task[c].key
    BY <2>1 DEF Task
  <2>3. Continue(c, t) /\ waiting' = waiting /\ wire # <<>> /\ c = Head(wire)
    BY <1>10 DEF Evicted, FailedEvict, Answered
  <2> HIDE DEF t
  <2>4. KeyGiven(t) /\ Continues(c, t)
    BY <2>1, <2>2, <2>3 DEF KeyGiven, Continues
  <2> QED
    BY <1>7, <2>2, <2>4
<1>11. ASSUME NEW p \in Procs, NEW S, Finish(p, S), wire # <<>>, p = Head(wire) PROVE CallStep
  BY <1>11 DEF Finish, Finishes, CallStep
<1>12. ASSUME NEW p \in Procs, Scanned(p) PROVE CallStep
  <2>1. PICK V \in SUBSET task[p].keys \ {{}} :
           LET t == [task[p] EXCEPT !.keys = @ \ V, !.first = @ \cup (V \cap stored)]
           IN  Continue(p, IF t.keys = {} THEN [t EXCEPT !.op = "matching", !.keys = t.match]
                           ELSE t)
    BY <1>12 DEF Scanned
  <2> DEFINE t == [task[p] EXCEPT !.keys = @ \ V, !.first = @ \cup (V \cap stored)]
             u == IF t.keys = {} THEN [t EXCEPT !.op = "matching", !.keys = t.match] ELSE t
  <2>2. task[p] \in Task /\ task[p] \in TasksOf(p) /\ task[p].op = "keys"
    BY <1>12 DEF Scanned, Answered
  <2>3. t \in Task /\ t.op = "keys" /\ t.match = task[p].match
    BY <2>2 DEF Task
  <2>4. u \in Task /\ u.op \in {"keys", "matching"} /\ u.match = task[p].match
    <3> HIDE DEF t
    <3> QED
      BY <2>3 DEF Task
  <2> HIDE DEF t, u
  <2>5. u \in TasksOf(p)
    BY <2>2, <2>4 DEF TasksOf, KeyGiven, Scans
  <2>6. Continues(p, u)
    BY <1>12, <2>1, <2>4 DEF Scanned, Answered, Continues, t, u
  <2> QED
    BY <2>4, <2>5, <2>6 DEF CallStep
<1>13. ASSUME NEW p \in Procs, ScannedAgain(p) PROVE CallStep
  <2>1. PICK V \in SUBSET task[p].keys \ {{}} :
           LET t == [task[p] EXCEPT !.keys = @ \ V, !.found = @ \cup (V \cap stored)]
           IN  IF t.keys = {} /\ t.found = {}
               THEN Finish(p, {})
               ELSE /\ Continue(p, IF t.keys = {} THEN [t EXCEPT !.op = "del"] ELSE t)
                    /\ UNCHANGED <<knownVars, entryVars, strategy, stale, waiting>>
    BY <1>13 DEF ScannedAgain
  <2> DEFINE t == [task[p] EXCEPT !.keys = @ \ V, !.found = @ \cup (V \cap stored)]
             u == IF t.keys = {} THEN [t EXCEPT !.op = "del"] ELSE t
  <2>2. /\ task[p] \in Task /\ task[p] \in TasksOf(p) /\ task[p].op = "matching"
        /\ wire # <<>> /\ p = Head(wire)
    BY <1>13 DEF ScannedAgain, Answered
  <2>3. t \in Task /\ t.op = "matching" /\ t.match = task[p].match
    BY <2>2 DEF Task
  <2>4. u \in Task /\ u.op \in {"matching", "del"} /\ u.match = task[p].match
    <3> HIDE DEF t
    <3> QED
      BY <2>3 DEF Task
  <2> HIDE DEF t, u
  <2>5. u \in TasksOf(p)
    BY <2>2, <2>4 DEF TasksOf, KeyGiven, Scans
  <2>6. CASE t.keys = {} /\ t.found = {}
    <3>1. Finish(p, {})
      BY <2>1, <2>6 DEF t
    <3> QED
      BY <1>11, <2>2, <3>1
  <2>7. CASE ~(t.keys = {} /\ t.found = {})
    <3>1. Continue(p, u) /\ waiting' = waiting
      BY <2>1, <2>7 DEF t, u
    <3>2. Continues(p, u)
      BY <2>2, <2>4, <3>1 DEF Continues
    <3> QED
      BY <2>4, <2>5, <3>2 DEF CallStep
  <2> QED
    BY <2>6, <2>7
<1>14. ASSUME NEW p \in Procs, MatchingDeleted(p) PROVE CallStep
  BY <1>11, <1>14 DEF MatchingDeleted, Answered
<1>15. ASSUME NEW p \in Procs, FailedMatching(p) PROVE CallStep
  <2>1. wire # <<>> /\ p = Head(wire)
    BY <1>15 DEF FailedMatching, Answered
  <2>2. Fails(p)
    BY <1>15, <2>1 DEF FailedMatching, Fails
  <2> QED
    BY <2>2 DEF CallStep
<1>16. ASSUME OtherWrites \/ Expire PROVE CallStep
  BY <1>16 DEF OtherWrites, Expire, CallStep
<1> HIDE DEF CallInv
<1> QED
  BY <1>1, <1>2, <1>3, <1>4, <1>5, <1>6, <1>8, <1>9, <1>10, <1>12, <1>13, <1>14, <1>15, <1>16
     DEF Next, Enter, Answer

-----------------------------------------------------------------------------
(* The entries a deleteMatching misses.                                      *)
ScanOps == {"keys", "matching", "del"}

(* A command of a key. *)
LEMMA KeyCommandStep ==
    ASSUME EntryInv, UNCHANGED strategy, stale' \in {stale, TRUE}, added' \in [Calls -> SUBSET Keys],
           \/ UNCHANGED entryVars
           \/ \E k \in Keys : Written(k)
           \/ \E S : Dropped(S),
           task'[Recovery] = task[Recovery],
           \A c \in Calls : \/ task'[c] = task[c]
                            \/ task[c].op \notin ScanOps /\ task'[c].op \notin ScanOps
    PROVE  EntryInv'
<1> USE DEF EntryInv, EntryTypes
<1>1. EntryTypes'
  <2>1. CASE UNCHANGED entryVars
    BY <2>1 DEF entryVars
  <2>2. ASSUME NEW k \in Keys, Written(k) PROVE EntryTypes'
    BY <2>2 DEF Written
  <2>3. ASSUME NEW S, Dropped(S) PROVE EntryTypes'
    BY <2>3 DEF Dropped
  <2> QED
    BY <2>1, <2>2, <2>3
<1>2. Owes'
  <2> SUFFICES ASSUME NEW c \in Calls
               PROVE  /\ owed'[c] \subseteq stored'
                      /\ task'[c].op = "keys" => owed'[c] \subseteq task'[c].match
                      /\ task'[c].op = "matching" =>
                            owed'[c] \subseteq task'[c].keys \cup task'[c].found
                      /\ task'[c].op = "del" => owed'[c] \subseteq task'[c].found
                      /\ task'[c].op \notin {"keys", "matching", "del"} => owed'[c] = {}
    BY DEF Owes
  <2>1. owed'[c] \subseteq owed[c] /\ owed'[c] \subseteq stored'
    <3>1. CASE UNCHANGED entryVars
      BY <3>1 DEF entryVars, Owes
    <3>2. ASSUME NEW k \in Keys, Written(k)
          PROVE  owed'[c] \subseteq owed[c] /\ owed'[c] \subseteq stored'
      BY <3>2 DEF Written, Owes
    <3>3. ASSUME NEW S, Dropped(S)
          PROVE  owed'[c] \subseteq owed[c] /\ owed'[c] \subseteq stored'
      BY <3>3 DEF Dropped, Owes
    <3> QED
      BY <3>1, <3>2, <3>3
  <2>2. CASE task'[c] = task[c]
    BY <2>1, <2>2 DEF Owes
  <2>3. CASE task[c].op \notin ScanOps /\ task'[c].op \notin ScanOps
    BY <2>1, <2>3 DEF Owes, ScanOps
  <2> QED
    BY <2>2, <2>3
<1>3. RecoveryFinds'
  <2>1. CASE UNCHANGED entryVars
    BY <2>1 DEF entryVars, RecoveryFinds
  <2>2. ASSUME NEW k \in Keys, Written(k) PROVE RecoveryFinds'
    BY <2>2 DEF Written, RecoveryFinds, Passed
  <2>3. ASSUME NEW S, Dropped(S) PROVE RecoveryFinds'
    BY <2>3 DEF Dropped, RecoveryFinds
  <2> QED
    BY <2>1, <2>2, <2>3
<1>4. MissedIsStale'
  <2>1. CASE UNCHANGED entryVars
    BY <2>1 DEF entryVars, MissedIsStale
  <2>2. ASSUME NEW k \in Keys, Written(k) PROVE MissedIsStale'
    BY <2>2 DEF Written, MissedIsStale
  <2>3. ASSUME NEW S, Dropped(S) PROVE MissedIsStale'
    BY <2>3 DEF Dropped, MissedIsStale
  <2> QED
    BY <2>1, <2>2, <2>3
<1> QED
  BY <1>1, <1>2, <1>3, <1>4

(* A call enters. *)
LEMMA EnterEntries ==
    ASSUME CallInv, EntryInv, added' \in [Calls -> SUBSET Keys], NEW c \in Calls, Enter(c)
    PROVE  EntryInv'
<1> USE DEF EntryInv, EntryTypes
<1>0. c # Recovery /\ c \in Procs /\ Recovery \in Procs
  BY CacheAssumption DEF Procs
<1>1. CASE Fallback(c)
  <2>1. PICK t \in Requests : missed' = missed \cup (stored \cap t.match)
    BY <1>1 DEF Fallback
  <2> QED
    BY <1>1, <2>1 DEF Fallback, Owes, RecoveryFinds, MissedIsStale
<1>2. ASSUME NEW t \in Requests,
             \A d \in Calls : task'[d] = IF d = c THEN t ELSE task[d],
             owed' = [owed EXCEPT ![c] = stored \cap t.match],
             UNCHANGED <<stored, missed, late, strategy, stale>>
      PROVE  EntryTypes' /\ Owes' /\ MissedIsStale'
  <2>1. t \in Task
    BY RequestsOK
  <2>2. EntryTypes' /\ MissedIsStale'
    BY <1>2, <2>1 DEF MissedIsStale, Task
  <2>3. t.op = "keys" \/ (t.op \notin ScanOps /\ t.match = {})
    BY RequestsOK DEF ScanOps
  <2>4. Owes'
    BY <1>2, <2>1, <2>3 DEF Owes, Task, ScanOps
  <2> QED
    BY <2>2, <2>4
<1>3. CASE Start(c)
  <2>1. PICK t \in Requests :
           task' = [task EXCEPT ![c] = t] /\ owed' = [owed EXCEPT ![c] = stored \cap t.match]
    BY <1>3 DEF Start
  <2>2. /\ \A d \in Calls : task'[d] = IF d = c THEN t ELSE task[d]
        /\ task'[Recovery] = task[Recovery]
    BY <1>0, <2>1 DEF CallInv, Procs
  <2>3. EntryTypes' /\ Owes' /\ MissedIsStale'
    BY <1>2, <1>3, <2>1, <2>2 DEF Start
  <2>4. RecoveryFinds'
    BY <1>3, <2>2 DEF Start, RecoveryFinds
  <2> QED
    BY <2>3, <2>4
<1>4. CASE Write(c)
  <2>1. PICK t : task' = [task EXCEPT ![c] = t] /\ t.op \notin ScanOps
    <3>1. PICK k \in Keys : \E S, young : task' = [task EXCEPT ![c] = FirstOf(k, S, young)]
      BY <1>4 DEF Write
    <3>2. PICK S, young : task' = [task EXCEPT ![c] = FirstOf(k, S, young)]
      BY <3>1
    <3>3. FirstOf(k, S, young).op \notin ScanOps
      BY FirstOps DEF ScanOps
    <3> QED
      BY <3>2, <3>3
  <2>2. /\ task'[Recovery] = task[Recovery]
        /\ \A d \in Calls : \/ task'[d] = task[d]
                            \/ task[d].op \notin ScanOps /\ task'[d].op \notin ScanOps
    <3>1. task[c].op \notin ScanOps /\ DOMAIN task = Procs
      BY <1>4 DEF Write, CallInv, ScanOps
    <3>2. /\ task'[Recovery] = task[Recovery] /\ task'[c] = t
          /\ \A d \in Calls : d # c => task'[d] = task[d]
      BY <1>0, <2>1, <3>1 DEF Procs
    <3>3. ASSUME NEW d \in Calls
          PROVE  \/ task'[d] = task[d]
                 \/ task[d].op \notin ScanOps /\ task'[d].op \notin ScanOps
      <4>1. CASE d = c
        BY <2>1, <3>1, <3>2, <4>1
      <4>2. CASE d # c
        BY <3>2, <4>2
      <4> QED
        BY <4>1, <4>2
    <3>4. task'[Recovery] = task[Recovery]
      BY <3>2
    <3> QED
      BY <3>3, <3>4
  <2> QED
    BY <1>4, <2>2, KeyCommandStep DEF Write
<1>5. CASE Join(c)
  <2>1. PICK t \in Requests :
           /\ task' = [task EXCEPT ![c] = t,
                        ![Recovery] = IF @.op = "idle" THEN Scan(Keys) ELSE @]
           /\ owed' = [owed EXCEPT ![c] = stored \cap t.match]
    BY <1>5 DEF Join
  <2>2. /\ \A d \in Calls : task'[d] = IF d = c THEN t ELSE task[d]
        /\ task'[Recovery] = IF task[Recovery].op = "idle" THEN Scan(Keys) ELSE task[Recovery]
    <3>1. DOMAIN task = Procs /\ Recovery \notin Calls
      BY CacheAssumption DEF CallInv
    <3>2. CASE task[Recovery].op = "idle"
      <4>1. task' = [task EXCEPT ![c] = t, ![Recovery] = Scan(Keys)]
        BY <1>0, <2>1, <3>2
      <4> QED
        BY <1>0, <3>1, <3>2, <4>1 DEF Procs
    <3>3. CASE task[Recovery].op # "idle"
      <4>1. task' = [task EXCEPT ![c] = t, ![Recovery] = task[Recovery]]
        BY <1>0, <2>1, <3>3
      <4> QED
        BY <1>0, <3>1, <3>3, <4>1 DEF Procs
    <3> QED
      BY <3>2, <3>3
  <2>3. EntryTypes' /\ MissedIsStale'
    <3>1. MissedIsStale' /\ UNCHANGED <<stored, missed, late, stale, strategy>>
      BY <1>5 DEF Join, MissedIsStale
    <3>2. owed' \in [Calls -> SUBSET Keys]
      BY <1>5, <2>1
    <3> QED
      BY <3>1, <3>2
  <2>4. Owes'
    BY <1>2, <1>5, <2>1, <2>2 DEF Join
  <2>5. RecoveryFinds'
    BY <1>5, <2>2 DEF Join, RecoveryFinds, Scan, Idle
  <2> QED
    BY <2>3, <2>4, <2>5
<1> QED
  BY <1>1, <1>3, <1>4, <1>5 DEF Enter

(* An answer changes the task of one call.                                   *)
LEMMA ContinueTask ==
    ASSUME CallInv, NEW p \in Procs, NEW t, Continue(p, t)
    PROVE  \A q \in Procs : task'[q] = IF q = p THEN t ELSE task[q]
BY DEF CallInv, Continue

(* The command of a key is answered, or fails. *)
LEMMA AnswerEntries ==
    ASSUME CallInv, EntryInv, added' \in [Calls -> SUBSET Keys], NEW c \in Calls,
           \/ GetKnown(c) \/ GetUnknown(c) \/ GetMissing(c) \/ Adopted(c)
           \/ SetDone(c) \/ Sized(c) \/ Deleted(c) \/ Evicted(c)
           \/ FailedRead(c) \/ FailedSet(c) \/ FailedDelete(c) \/ FailedEvict(c)
    PROVE  EntryInv'
<1>0. c # Recovery /\ c \in Procs /\ Recovery \in Procs /\ \A d \in Calls : d \in Procs
  BY CacheAssumption DEF Procs
<1>1. ASSUME NEW t, Continue(c, t), t.op \notin ScanOps, task[c].op \notin ScanOps
      PROVE  /\ task'[Recovery] = task[Recovery]
             /\ \A d \in Calls : \/ task'[d] = task[d]
                                 \/ task[d].op \notin ScanOps /\ task'[d].op \notin ScanOps
  BY <1>0, <1>1, ContinueTask
<1>2. Idle.op \notin ScanOps /\ \A k : One("adopt", k).op \notin ScanOps
  BY DEF Idle, One, ScanOps
<1>3. PICK t : Continue(c, t) /\ t.op \notin ScanOps
  <2>1. CASE GetKnown(c) \/ GetMissing(c) \/ Adopted(c) \/ Sized(c) \/ Deleted(c)
             \/ FailedRead(c) \/ FailedSet(c) \/ FailedDelete(c)
    BY <1>2, <2>1 DEF GetKnown, GetMissing, Adopted, Sized, Deleted, FailedRead, FailedSet,
                      FailedDelete
  <2>2. CASE GetUnknown(c)
    BY <1>2, <2>2 DEF GetUnknown
  <2>3. task[c] \in Task
    BY <1>0 DEF CallInv
  <2>4. CASE SetDone(c)
    <3>1. [task[c] EXCEPT !.op = "size"].op = "size"
      BY <2>3 DEF Task
    <3> QED
      BY <2>4, <3>1 DEF SetDone, ScanOps
  <2>5. CASE Evicted(c) \/ FailedEvict(c)
    <3>1. [task[c] EXCEPT !.op = "set", !.keys = {}].op = "set"
      BY <2>3 DEF Task
    <3> QED
      BY <2>5, <3>1 DEF Evicted, FailedEvict, ScanOps
  <2> QED
    BY <2>1, <2>2, <2>4, <2>5
<1>4. task[c].op \in {"get", "adopt", "set", "size", "delete", "evict"}
  BY DEF GetKnown, GetUnknown, GetMissing, Adopted, SetDone, Sized, Deleted, Evicted,
         FailedRead, FailedSet, FailedDelete, FailedEvict, Answered
<1>5. UNCHANGED entryVars \/ (\E k \in Keys : Written(k)) \/ (\E S : Dropped(S))
  <2>1. task[c].key \in Keys
    BY <1>0, <1>4 DEF CallInv, TasksOf, KeyGiven
  <2>2. CASE GetKnown(c) \/ GetUnknown(c) \/ GetMissing(c) \/ Adopted(c) \/ Sized(c)
             \/ FailedRead(c)
    BY <2>2 DEF GetKnown, GetUnknown, GetMissing, Adopted, Sized, FailedRead
  <2>3. CASE SetDone(c) \/ Deleted(c) \/ Evicted(c)
    BY <2>1, <2>3 DEF SetDone, Deleted, Evicted
  <2>4. CASE FailedSet(c) \/ FailedDelete(c)
    BY <2>1, <2>4 DEF FailedSet, FailedDelete
  <2>5. CASE FailedEvict(c)
    BY <2>5 DEF FailedEvict
  <2> QED
    BY <2>2, <2>3, <2>4, <2>5
<1>6. UNCHANGED strategy /\ stale' \in {stale, TRUE}
  <2>1. CASE GetKnown(c) \/ GetUnknown(c) \/ GetMissing(c) \/ Adopted(c) \/ SetDone(c)
             \/ Sized(c) \/ Deleted(c) \/ Evicted(c)
    BY <2>1 DEF GetKnown, GetUnknown, GetMissing, Adopted, SetDone, Sized, Deleted, Evicted
  <2>2. CASE FailedRead(c) \/ FailedSet(c) \/ FailedDelete(c) \/ FailedEvict(c)
    BY <2>2 DEF FailedRead, FailedSet, FailedDelete, FailedEvict
  <2> QED
    BY <2>1, <2>2
<1>7. task[c].op \notin ScanOps
  BY <1>4 DEF ScanOps
<1>8. /\ task'[Recovery] = task[Recovery]
      /\ \A d \in Calls : \/ task'[d] = task[d]
                          \/ task[d].op \notin ScanOps /\ task'[d].op \notin ScanOps
  BY <1>1, <1>3, <1>7
<1> QED
  BY <1>5, <1>6, <1>8, KeyCommandStep

(* A deletion of a pattern goes on. *)
LEMMA ScanEntries ==
    ASSUME CallInv, EntryInv, added' \in [Calls -> SUBSET Keys], UNCHANGED <<entryVars, strategy, stale>>,
           NEW p \in Procs, NEW t, Continue(p, t), t.op \in ScanOps,
           p \in Calls =>
             /\ t.op = "keys" => owed[p] \subseteq t.match
             /\ t.op = "matching" => owed[p] \subseteq t.keys \cup t.found
             /\ t.op = "del" => owed[p] \subseteq t.found,
           p = Recovery =>
             /\ t.op = "matching" => stored \subseteq t.keys \cup t.found \cup late
             /\ t.op = "del" => stored \subseteq t.found \cup late
    PROVE  EntryInv'
<1>0. Recovery \in Procs /\ Calls \subseteq Procs
  BY DEF Procs
<1>1. \A q \in Procs : task'[q] = IF q = p THEN t ELSE task[q]
  BY ContinueTask
<1>2. Owes'
  <2> SUFFICES ASSUME NEW c \in Calls
               PROVE  /\ owed[c] \subseteq stored
                      /\ task'[c].op = "keys" => owed[c] \subseteq task'[c].match
                      /\ task'[c].op = "matching" =>
                            owed[c] \subseteq task'[c].keys \cup task'[c].found
                      /\ task'[c].op = "del" => owed[c] \subseteq task'[c].found
                      /\ task'[c].op \notin {"keys", "matching", "del"} => owed[c] = {}
    BY DEF Owes, entryVars
  <2>1. CASE c = p
    BY <1>0, <1>1, <2>1 DEF EntryInv, Owes, ScanOps
  <2>2. CASE c # p
    <3>1. task'[c] = task[c]
      BY <1>0, <1>1, <2>2
    <3> QED
      BY <3>1 DEF EntryInv, Owes
  <2> QED
    BY <2>1, <2>2
<1>3. RecoveryFinds'
  <2>1. CASE p = Recovery
    BY <1>0, <1>1, <2>1 DEF RecoveryFinds, entryVars
  <2>2. CASE p # Recovery
    <3>1. task'[Recovery] = task[Recovery]
      BY <1>0, <1>1, <2>2
    <3> QED
      BY <3>1 DEF EntryInv, RecoveryFinds, entryVars
  <2> QED
    BY <2>1, <2>2
<1> QED
  BY <1>2, <1>3 DEF EntryInv, EntryTypes, MissedIsStale, entryVars

(* It ends. *)
LEMMA FinishEntries ==
    ASSUME CallInv, EntryInv, added' \in [Calls -> SUBSET Keys], NEW p \in Procs, NEW S, Finish(p, S),
           p \in Calls => owed[p] \subseteq S,
           p = Recovery => stored \subseteq S \cup late
    PROVE  EntryInv'
<1>0. Recovery \in Procs /\ Calls \subseteq Procs /\ Recovery \notin Calls
  BY CacheAssumption DEF Procs
<1>1. \A q \in Procs : task'[q] = IF q = p THEN Idle ELSE task[q]
  BY DEF Finish, CallInv
<1>2. /\ stored' = stored \ S /\ strategy' = strategy /\ stale' = (stale /\ p # Recovery)
      /\ missed' = missed \ S
      /\ owed' = [c \in Calls |-> IF c = p THEN {} ELSE owed[c] \ S]
      /\ late' = IF p = Recovery THEN late \cap missed' ELSE late \ S
  BY <1>0 DEF Finish, Procs
<1>3. EntryTypes'
  BY <1>2 DEF EntryInv, EntryTypes
<1>4. Owes'
  <2> SUFFICES ASSUME NEW c \in Calls
               PROVE  /\ owed'[c] \subseteq stored'
                      /\ task'[c].op = "keys" => owed'[c] \subseteq task'[c].match
                      /\ task'[c].op = "matching" =>
                            owed'[c] \subseteq task'[c].keys \cup task'[c].found
                      /\ task'[c].op = "del" => owed'[c] \subseteq task'[c].found
                      /\ task'[c].op \notin {"keys", "matching", "del"} => owed'[c] = {}
    BY DEF Owes
  <2>1. CASE c = p
    BY <1>0, <1>1, <1>2, <2>1 DEF Idle
  <2>2. CASE c # p
    <3>1. task'[c] = task[c] /\ owed'[c] = owed[c] \ S
      BY <1>0, <1>1, <1>2, <2>2
    <3> QED
      BY <1>2, <3>1 DEF EntryInv, Owes
  <2> QED
    BY <2>1, <2>2
<1>5. RecoveryFinds'
  <2>1. CASE p = Recovery
    BY <1>0, <1>1, <2>1 DEF RecoveryFinds, Idle
  <2>2. CASE p # Recovery
    <3>1. task'[Recovery] = task[Recovery] /\ late' = late \ S
      BY <1>0, <1>1, <1>2, <2>2
    <3> QED
      BY <1>2, <3>1 DEF EntryInv, RecoveryFinds
  <2> QED
    BY <2>1, <2>2
<1>6. MissedIsStale'
  BY <1>2 DEF EntryInv, EntryTypes, MissedIsStale
<1> QED
  BY <1>3, <1>4, <1>5, <1>6 DEF EntryInv

(* It fails. *)
LEMMA FailEntries ==
    ASSUME CallInv, EntryInv, added' \in [Calls -> SUBSET Keys], NEW p \in Procs, FailedMatching(p)
    PROVE  EntryInv'
<1>0. Recovery \in Procs /\ Calls \subseteq Procs /\ Recovery \notin Calls
  BY CacheAssumption DEF Procs
<1> DEFINE failed == FailedWith(p)
<1>1. \A q \in Procs : task'[q] = IF q \in failed THEN Idle ELSE task[q]
  BY DEF FailedMatching
<1>2. PICK S :
         /\ stored' = stored \ S
         /\ missed' = (missed \cup UNION {owed[c] : c \in failed \ {Recovery}}) \ S
         /\ owed' = [c \in Calls |-> IF c \in failed THEN {} ELSE owed[c] \ S]
         /\ late' = IF p = Recovery THEN late \cap missed' ELSE late \ S
  BY DEF FailedMatching
<1>3. failed \ {Recovery} \subseteq Calls /\ p \in failed
      /\ (p # Recovery => Recovery \notin failed)
  <2>1. waiting \in Seq(Calls)
    BY DEF CallInv
  <2>2. Sent(waiting) \subseteq Calls
    BY <2>1 DEF Sent
  <2> QED
    BY <2>2 DEF FailedWith, Procs
<1> HIDE DEF failed
<1>4. stale' = TRUE /\ strategy' = strategy
  BY DEF FailedMatching
<1>5. missed' \subseteq stored'
  <2>1. \A c \in failed \ {Recovery} : owed[c] \subseteq stored
    BY <1>3 DEF EntryInv, Owes
  <2> QED
    BY <1>2, <2>1 DEF EntryInv, EntryTypes
<1>6. EntryTypes'
  BY <1>2, <1>4, <1>5 DEF EntryInv, EntryTypes
<1>7. Owes'
  <2> SUFFICES ASSUME NEW c \in Calls
               PROVE  /\ owed'[c] \subseteq stored'
                      /\ task'[c].op = "keys" => owed'[c] \subseteq task'[c].match
                      /\ task'[c].op = "matching" =>
                            owed'[c] \subseteq task'[c].keys \cup task'[c].found
                      /\ task'[c].op = "del" => owed'[c] \subseteq task'[c].found
                      /\ task'[c].op \notin {"keys", "matching", "del"} => owed'[c] = {}
    BY DEF Owes
  <2>1. CASE c \in failed
    BY <1>0, <1>1, <1>2, <2>1 DEF Idle
  <2>2. CASE c \notin failed
    <3>1. task'[c] = task[c] /\ owed'[c] = owed[c] \ S
      BY <1>0, <1>1, <1>2, <2>2
    <3> QED
      BY <1>2, <3>1 DEF EntryInv, Owes
  <2> QED
    BY <2>1, <2>2
<1>8. RecoveryFinds'
  <2>1. CASE p = Recovery
    BY <1>0, <1>1, <1>3, <2>1 DEF RecoveryFinds, Idle
  <2>2. CASE p # Recovery
    <3>1. task'[Recovery] = task[Recovery] /\ late' = late \ S
      BY <1>0, <1>1, <1>2, <1>3, <2>2
    <3> QED
      BY <1>2, <3>1 DEF EntryInv, RecoveryFinds
  <2> QED
    BY <2>1, <2>2
<1>9. MissedIsStale'
  BY <1>4 DEF MissedIsStale
<1> QED
  BY <1>6, <1>7, <1>8, <1>9 DEF EntryInv

(* A scan is answered, or the deletion.                                      *)
LEMMA DeletionEntries ==
    ASSUME CallInv, EntryInv, added' \in [Calls -> SUBSET Keys], NEW p \in Procs,
           Scanned(p) \/ ScannedAgain(p) \/ MatchingDeleted(p)
    PROVE  EntryInv'
<1>0. Calls \subseteq Procs /\ (p \in Calls \/ p = Recovery)
  BY DEF Procs
<1>1. task[p] \in Task /\ task[p] \in TasksOf(p)
  BY DEF CallInv
<1>2. stored \subseteq Keys /\ (p \in Calls => owed[p] \subseteq stored)
  BY DEF EntryInv, EntryTypes, Owes
<1>3. CASE Scanned(p)
  <2>1. PICK V \in SUBSET task[p].keys \ {{}} :
           LET t == [task[p] EXCEPT !.keys = @ \ V, !.first = @ \cup (V \cap stored)]
           IN  Continue(p, IF t.keys = {} THEN [t EXCEPT !.op = "matching", !.keys = t.match]
                           ELSE t)
    BY <1>3 DEF Scanned
  <2> DEFINE t == [task[p] EXCEPT !.keys = @ \ V, !.first = @ \cup (V \cap stored)]
             u == IF t.keys = {} THEN [t EXCEPT !.op = "matching", !.keys = t.match] ELSE t
  <2>2. task[p].op = "keys" /\ UNCHANGED <<entryVars, strategy, stale>>
    BY <1>3 DEF Scanned, Answered
  <2>3. t \in Task /\ t.op = "keys" /\ t.match = task[p].match
    BY <1>1, <2>2 DEF Task
  <2>4. \/ u.op = "keys" /\ u.match = task[p].match
        \/ u.op = "matching" /\ u.keys = task[p].match
    <3> HIDE DEF t
    <3> QED
      BY <2>3 DEF Task
  <2>5. Continue(p, u)
    BY <2>1
  <2> HIDE DEF t, u
  <2>6. p \in Calls => owed[p] \subseteq task[p].match
    BY <2>2 DEF EntryInv, Owes
  <2>7. p = Recovery => task[p].match = Keys
    BY <1>1, <2>2 DEF TasksOf, Scans
  <2> QED
    BY <1>2, <2>2, <2>4, <2>5, <2>6, <2>7, ScanEntries DEF ScanOps
<1>4. CASE ScannedAgain(p)
  <2>1. PICK V \in SUBSET task[p].keys \ {{}} :
           LET t == [task[p] EXCEPT !.keys = @ \ V, !.found = @ \cup (V \cap stored)]
           IN  IF t.keys = {} /\ t.found = {}
               THEN Finish(p, {})
               ELSE /\ Continue(p, IF t.keys = {} THEN [t EXCEPT !.op = "del"] ELSE t)
                    /\ UNCHANGED <<knownVars, entryVars, strategy, stale, waiting>>
    BY <1>4 DEF ScannedAgain
  <2> DEFINE t == [task[p] EXCEPT !.keys = @ \ V, !.found = @ \cup (V \cap stored)]
             u == IF t.keys = {} THEN [t EXCEPT !.op = "del"] ELSE t
  <2>2. task[p].op = "matching"
    BY <1>4 DEF ScannedAgain, Answered
  <2>3. /\ t \in Task /\ t.op = "matching" /\ t.keys = task[p].keys \ V
        /\ t.found = task[p].found \cup (V \cap stored)
    BY <1>1, <2>2 DEF Task
  <2>4. /\ p \in Calls => owed[p] \subseteq t.keys \cup t.found
        /\ p = Recovery => stored \subseteq t.keys \cup t.found \cup late
    <3>1. /\ p \in Calls => owed[p] \subseteq task[p].keys \cup task[p].found
          /\ p = Recovery => stored \subseteq task[p].keys \cup task[p].found \cup late
      BY <2>2 DEF EntryInv, Owes, RecoveryFinds
    <3> HIDE DEF t
    <3> QED
      BY <1>2, <2>3, <3>1
  <2>5. CASE t.keys = {} /\ t.found = {}
    <3>1. Finish(p, {})
      BY <2>1, <2>5
    <3> HIDE DEF t
    <3>2. /\ p \in Calls => owed[p] \subseteq {}
          /\ p = Recovery => stored \subseteq {} \cup late
      BY <2>4, <2>5
    <3> QED
      BY <3>1, <3>2, FinishEntries
  <2>6. CASE ~(t.keys = {} /\ t.found = {})
    <3>1. Continue(p, u) /\ UNCHANGED <<entryVars, strategy, stale>>
      BY <2>1, <2>6
    <3>2. \/ u.op = "matching" /\ u.keys = t.keys /\ u.found = t.found
          \/ u.op = "del" /\ u.found = t.found /\ t.keys = {}
      <4> HIDE DEF t
      <4> QED
        BY <2>3 DEF Task
    <3> HIDE DEF t, u
    <3> QED
      BY <2>4, <3>1, <3>2, ScanEntries DEF ScanOps
  <2> QED
    BY <2>5, <2>6
<1>5. CASE MatchingDeleted(p)
  <2>1. task[p].op = "del" /\ Finish(p, task[p].found)
    BY <1>5 DEF MatchingDeleted, Answered
  <2>2. /\ p \in Calls => owed[p] \subseteq task[p].found
        /\ p = Recovery => stored \subseteq task[p].found \cup late
    BY <2>1 DEF EntryInv, Owes, RecoveryFinds
  <2> QED
    BY <2>1, <2>2, FinishEntries
<1> QED
  BY <1>3, <1>4, <1>5

(* Each step keeps what is said about the entries. *)
LEMMA EntryInvStep ==
    ASSUME CallInv, EntryInv, index'.nodes \subseteq Keys, Next
    PROVE  EntryInv'
<1>1. added' \in [Calls -> SUBSET Keys]
  BY DEF Next, EntryInv, EntryTypes
<1>2. ASSUME OtherWrites \/ Expire PROVE EntryInv'
  <2>1. /\ UNCHANGED <<strategy, stale, task>>
        /\ (\E k \in Keys : Written(k)) \/ (\E S : Dropped(S))
    <3>1. Passed \subseteq Keys
      BY DEF Passed
    <3> QED
      BY <1>2, <3>1 DEF OtherWrites, Expire
  <2> QED
    BY <1>1, <2>1, KeyCommandStep
<1> QED
  BY <1>1, <1>2, EnterEntries, AnswerEntries, DeletionEntries, FailEntries DEF Next, Answer

-----------------------------------------------------------------------------
(* The inductive invariant.                                                  *)

(* The types of the metadata: an entry is either written or adopted.         *)
KnownTypes == timed \subseteq Keys /\ adopted \subseteq Keys \ timed

(* The inductive invariant.                                                  *)
Inv == CallInv /\ EntryInv /\ KnownTypes /\ IndexInv

(* It holds at the start.                                                    *)
LEMMA InitInv == Init => Inv
<1> SUFFICES ASSUME Init PROVE Inv
  OBVIOUS
<1>1. CallInv
  BY InitCalls
<1>2. EntryInv
  BY CacheAssumption DEF Init, EntryInv, EntryTypes, Owes, RecoveryFinds, MissedIsStale, Idle, Procs
<1>3. KnownTypes
  BY DEF Init, KnownTypes
<1>4. Spells(index, <<>>)
  BY SpellsEmpty DEF Init
<1>5. IndexInStep
  <2>1. FromHead(index, Cardinality(Keys) + 1) = <<>>
    BY <1>4, OrderIs
  <2> QED
    BY <2>1, SentEmpty DEF Init, IndexInStep, EmptyIndex, meta
<1> QED
  BY <1>1, <1>2, <1>3, <1>4, <1>5 DEF Inv, IndexInv, Spelled

(* The index keeps its part, and changes its order by a move or by removals. *)
LEMMA InvIndex ==
    ASSUME Inv, Next
    PROVE  /\ KnownTypes' /\ IndexInStep'
           /\ \E q, r : /\ Spells(index, q) /\ Spells(index', r)
                        /\ Thins(q, r) \/ \E k \in Keys : Moves(q, r, k)
<1>1. PICK q : Spells(index, q)
  BY DEF Inv, IndexInv, Spelled
<1>2. KnownStep /\ strategy' = strategy
  BY KnownChanges DEF Inv, KnownTypes, meta
<1>3. strategy \in Strategies
  BY CacheAssumption DEF Inv, EntryInv, EntryTypes
<1> QED
  BY <1>1, <1>2, <1>3, IndexSteps DEF Inv, KnownTypes, IndexInv

(* A step keeps the invariant.                                               *)
LEMMA InvStep == ASSUME Inv, [Next]_vars PROVE Inv'
<1>1. CASE Next
  <2>1. KnownTypes' /\ IndexInv'
    BY <1>1, InvIndex DEF IndexInv, Spelled
  <2>2. CallInv'
    <3>1. Spelled /\ Spelled' /\ stored \subseteq Keys /\ meta \subseteq Keys /\ CallInv
      BY <2>1 DEF Inv, IndexInv, EntryInv, EntryTypes, KnownTypes, meta
    <3> QED
      BY <1>1, <3>1, CallChanges, CallInvStep
  <2>3. EntryInv'
    <3>1. index'.nodes \subseteq Keys
      BY <2>1 DEF IndexInv, Spelled, Spells, Index
    <3> QED
      BY <1>1, <3>1, EntryInvStep DEF Inv
  <2> QED
    BY <2>1, <2>2, <2>3 DEF Inv
<1>2. CASE UNCHANGED vars
  BY <1>2 DEF vars, Inv, CallInv, EntryInv, EntryTypes, Owes, RecoveryFinds, MissedIsStale,
              KnownTypes, IndexInv, Spelled, IndexInStep, meta
<1> QED
  BY <1>1, <1>2

(* In every behaviour of the cache: calls, index and entries are as said.    *)
THEOREM Invariant == Spec => []Inv
BY InitInv, InvStep, PTL DEF Spec

(* The variables have their types, and a call with a command is either in    *)
(* the wire or waits for a recovery that is under way (run and guard of      *)
(* cache.ts lose no call).                                                   *)
THEOREM TypeCorrect == Spec => []TypeOK
<1>1. Inv => TypeOK
  BY DEF Inv, CallInv, EntryInv, EntryTypes, KnownTypes, IndexInv, Spelled, Spells, TypeOK
<1> QED
  BY <1>1, Invariant, PTL

(* An entry that a deleteMatching should have deleted and left in the memory *)
(* leaves the cache stale, unless another process wrote it behind the scan   *)
(* of a recovery (guard and recover of cache.ts).                            *)
THEOREM MissedAreStale == Spec => []MissedIsStale
<1>1. Inv => MissedIsStale
  BY DEF Inv, EntryInv
<1> QED
  BY <1>1, Invariant, PTL

(* The metadata and the eviction index are in step, and the links reach all  *)
(* the keys of the index: an entry of this process can be evicted, and an    *)
(* evicted one is forgotten.                                                 *)
THEOREM IndexKept == Spec => []IndexInStep
<1>1. Inv => IndexInStep
  BY DEF Inv, IndexInv
<1> QED
  BY <1>1, Invariant, PTL

-----------------------------------------------------------------------------
(* A read starts. *)
LEMMA WireTail ==
    ASSUME CallInv, wire # <<>>
    PROVE  /\ Tail(wire) \in Seq(Procs) /\ Sent(Tail(wire)) \subseteq Sent(wire)
           /\ Head(wire) \in Sent(wire)
BY SentTail DEF CallInv

(* An answer puts no other call into the wire.                               *)
LEMMA WireContinues ==
    ASSUME CallInv, wire # <<>>, NEW p \in Procs, p = Head(wire), NEW t, Continue(p, t)
    PROVE  Sent(wire') \subseteq Sent(wire)
<1>1. PICK w \in Seq(Procs) : w = Tail(wire)
  BY WireTail
<1>2. Sent(Append(w, p)) = Sent(w) \cup {p}
  BY SentAppend
<1> QED
  BY <1>1, <1>2, WireTail DEF Continue

(* A read enters the wire with no entry missed but the late: Start finds the *)
(* cache fresh, and the end of a recovery lets those that waited go.         *)
LEMMA ReadStarts ==
    ASSUME Inv, Inv', Next, NEW c \in Sent(wire') \ Sent(wire), task'[c].op = "get"
    PROVE  missed' \subseteq late'
<1>0. /\ wire \in Seq(Procs) /\ CallInv /\ DOMAIN task = Procs
      /\ Recovery \in Procs /\ Calls \subseteq Procs
      /\ task'[Recovery].op # "get"
  BY DEF Inv, CallInv, TasksOf, Scans, Procs
<1>1. ASSUME NEW d \in Calls, Enter(d) PROVE missed' \subseteq late'
  <2>1. CASE Fallback(d)
    BY <2>1 DEF Fallback
  <2>2. CASE Start(d)
    BY <2>2 DEF Start, Runs, Inv, EntryInv, MissedIsStale
  <2>3. CASE Write(d)
    <3>1. wire' = Append(wire, d)
      BY <2>3 DEF Write
    <3>2. c = d
      BY <1>0, <3>1, SentAppend
    <3>3. PICK k \in Keys : \E S, young : task' = [task EXCEPT ![d] = FirstOf(k, S, young)]
      BY <2>3 DEF Write
    <3>4. PICK S, young : task' = [task EXCEPT ![d] = FirstOf(k, S, young)]
      BY <3>3
    <3>5. task'[d].op \in {"set", "evict"}
      BY <1>0, <3>4, FirstOps
    <3> QED
      BY <3>2, <3>5
  <2>4. CASE Join(d)
    <3>1. wire' = Append(wire, Recovery) \/ wire' = wire
      BY <2>4 DEF Join
    <3>2. Sent(Append(wire, Recovery)) = Sent(wire) \cup {Recovery}
      BY <1>0, SentAppend
    <3>3. c = Recovery
      BY <3>1, <3>2
    <3> QED
      BY <1>0, <3>3
  <2> QED
    BY <1>1, <2>1, <2>2, <2>3, <2>4 DEF Enter
<1>2. ASSUME NEW p \in Procs, NEW t, wire # <<>>, p = Head(wire), Continue(p, t) PROVE FALSE
  BY <1>0, <1>2, WireContinues
<1>3. ASSUME NEW d \in Calls,
             \/ GetKnown(d) \/ GetUnknown(d) \/ GetMissing(d) \/ Adopted(d)
             \/ SetDone(d) \/ Sized(d) \/ Deleted(d) \/ Evicted(d)
             \/ FailedRead(d) \/ FailedSet(d) \/ FailedDelete(d) \/ FailedEvict(d)
      PROVE  FALSE
  <2>1. wire # <<>> /\ d = Head(wire)
    BY <1>3 DEF GetKnown, GetUnknown, GetMissing, Adopted, SetDone, Sized, Deleted, Evicted,
                FailedRead, FailedSet, FailedDelete, FailedEvict, Answered
  <2>2. \E t : Continue(d, t)
    <3>1. CASE \/ GetKnown(d) \/ GetUnknown(d) \/ GetMissing(d) \/ Adopted(d)
               \/ SetDone(d) \/ Sized(d) \/ Deleted(d) \/ Evicted(d)
      BY <3>1 DEF GetKnown, GetUnknown, GetMissing, Adopted, SetDone, Sized, Deleted, Evicted
    <3>2. CASE FailedRead(d) \/ FailedSet(d) \/ FailedDelete(d) \/ FailedEvict(d)
      BY <3>2 DEF FailedRead, FailedSet, FailedDelete, FailedEvict
    <3> QED
      BY <1>3, <3>1, <3>2
  <2> QED
    BY <1>0, <1>2, <2>1, <2>2
<1>4. ASSUME NEW p \in Procs, NEW S, wire # <<>>, p = Head(wire), Finish(p, S)
      PROVE  missed' \subseteq late'
  <2>1. CASE p = Recovery
    <3>1. stale' = FALSE
      BY <1>4, <2>1 DEF Finish
    <3> QED
      BY <3>1 DEF Inv, EntryInv, MissedIsStale
  <2>2. CASE p # Recovery
    <3>1. wire' = Tail(wire) \o <<>>
      BY <1>4, <2>2 DEF Finish
    <3>2. wire' = Tail(wire)
      BY <1>0, <1>4, <3>1, WireTail, ConcatEmptySeq
    <3> QED
      BY <1>0, <1>4, <3>2, WireTail
  <2> QED
    BY <2>1, <2>2
<1>5. ASSUME NEW p \in Procs, Scanned(p) PROVE FALSE
  <2>1. wire # <<>> /\ p = Head(wire) /\ \E t : Continue(p, t)
    BY <1>5 DEF Scanned, Answered
  <2> QED
    BY <1>2, <2>1
<1>6. ASSUME NEW p \in Procs, ScannedAgain(p) PROVE missed' \subseteq late'
  <2>1. wire # <<>> /\ p = Head(wire) /\ (Finish(p, {}) \/ \E t : Continue(p, t))
    BY <1>6 DEF ScannedAgain, Answered
  <2> QED
    BY <1>2, <1>4, <2>1
<1>7. ASSUME NEW p \in Procs, MatchingDeleted(p) PROVE missed' \subseteq late'
  BY <1>4, <1>7 DEF MatchingDeleted, Answered
<1>8. ASSUME NEW p \in Procs, FailedMatching(p) PROVE FALSE
  <2>1. wire # <<>> /\ wire' = Tail(wire)
    BY <1>8 DEF FailedMatching, Answered
  <2> QED
    BY <1>0, <2>1, WireTail
<1>9. ASSUME OtherWrites \/ Expire PROVE FALSE
  BY <1>9 DEF OtherWrites, Expire
<1> QED
  BY <1>1, <1>3, <1>5, <1>6, <1>7, <1>8, <1>9 DEF Next, Answer

(* A read never starts on an entry that a deleteMatching which has returned  *)
(* should have deleted (run of cache.ts waits for the recovery before it     *)
(* sends the command).                                                       *)
THEOREM ReadsSeeNoMissed == Spec => ReadsAreNotMissed
<1>1. ASSUME Inv, [Next]_vars
      PROVE  [\A c \in Sent(wire') \ Sent(wire) :
                task'[c].op = "get" => task'[c].key \notin missed' \ late']_vars
  <2>1. CASE Next
    BY <1>1, <2>1, InvStep, ReadStarts
  <2> QED
    BY <1>1, <2>1
<1> QED
  BY <1>1, Invariant, PTL DEF Spec, ReadsAreNotMissed

-----------------------------------------------------------------------------
(* The order of evictions. *)
LEMMA ThinsIn ==
    ASSUME NEW q \in Seq(Keys), NEW r \in Seq(Keys), Thins(q, r)
    PROVE  Order!Thins(q, r)
<1>1. DOMAIN q = 1 .. Len(q) /\ DOMAIN r = 1 .. Len(r)
  BY LenProperties
<1>2. ASSUME NEW i \in DOMAIN r PROVE \E j \in DOMAIN q : r[i] = q[j]
  <2>1. i \in 1 .. Len(r) /\ Listed(r) \subseteq Listed(q)
    BY <1>1 DEF Thins
  <2>2. PICK j \in 1 .. Len(q) : r[i] = q[j]
    BY <2>1 DEF Listed
  <2> QED
    BY <1>1, <2>2
<1>3. ASSUME NEW i \in DOMAIN r, NEW j \in DOMAIN r, i < j
      PROVE  \E m, n \in DOMAIN q : m < n /\ q[m] = r[i] /\ q[n] = r[j]
  <2>1. i \in 1 .. Len(r) /\ j \in 1 .. Len(r)
    BY <1>1
  <2>2. PICK m \in 1 .. Len(q), n \in 1 .. Len(q) : m < n /\ q[m] = r[i] /\ q[n] = r[j]
    BY <1>3, <2>1 DEF Thins
  <2>3. m \in DOMAIN q /\ n \in DOMAIN q
    BY <1>1
  <2> QED
    BY <2>2, <2>3
<1> QED
  BY <1>2, <1>3 DEF Order!Thins

(* A move of a key is a step of the order.                                   *)
LEMMA MovesFollow ==
    ASSUME NEW q \in Seq(Keys), NEW r \in Seq(Keys), NEW k \in Keys, Moves(q, r, k)
    PROVE  Order!Follows(q, r)
<1>1. CASE r = q
  BY <1>1, ThinsItself, ThinsIn DEF Order!Follows
<1>2. ASSUME NEW s \in Seq(Keys), Thins(q, s), k \notin Listed(s), r = Append(s, k)
      PROVE  Order!Follows(q, r)
  <2>1. Len(s) \in Nat /\ DOMAIN s = 1 .. Len(s)
    BY LenProperties
  <2>2. Len(r) = Len(s) + 1 /\ r[Len(s) + 1] = k /\ \A i \in 1 .. Len(s) : r[i] = s[i]
    BY <1>2, AppendProperties
  <2>3. SubSeq(r, 1, Len(s)) = s
    BY <1>2, <2>1, <2>2
  <2>4. Order!Thins(q, s) /\ k \notin {s[i] : i \in DOMAIN s}
    BY <1>2, <2>1, ThinsIn DEF Listed
  <2>5. Len(r) - 1 = Len(s) /\ Len(r) > 0 /\ r[Len(r)] = k
    BY <2>1, <2>2
  <2> QED
    BY <2>3, <2>4, <2>5 DEF Order!Follows, Order!PutsLast
<1> QED
  BY <1>1, <1>2 DEF Moves

(* The links of the index implement the order of EvictionOrder: a step never *)
(* swaps two keys and puts a key only at the end, whatever calls overlap.    *)
THEOREM ImplementsOrder == Spec => OrderSpec
<1> DEFINE order == FromHead(index, Cardinality(Keys))
<1>1. Init => order = <<>>
  <2>1. Init => Spells(index, <<>>)
    BY SpellsEmpty DEF Init
  <2> QED
    BY <2>1, OrderIs
<1>2. ASSUME Inv, Next PROVE Order!Step
  <2>1. PICK q, r : /\ Spells(index, q) /\ Spells(index', r)
                    /\ Thins(q, r) \/ \E k \in Keys : Moves(q, r, k)
    BY <1>2, InvIndex
  <2>2. q \in Seq(Keys) /\ r \in Seq(Keys)
    BY <2>1 DEF Spells
  <2>3. order = q /\ order' = r
    BY <2>1, OrderIs
  <2>4. Order!Follows(q, r)
    BY <2>1, <2>2, ThinsIn, MovesFollow DEF Order!Follows
  <2> QED
    BY <2>3, <2>4 DEF Order!Step
<1>3. ASSUME Inv, [Next]_vars PROVE [Order!Step]_order
  <2>1. CASE Next
    BY <1>2, <1>3, <2>1
  <2>2. CASE UNCHANGED vars
    BY <2>2 DEF vars
  <2> QED
    BY <1>3, <2>1, <2>2
<1> HIDE DEF order
<1> QED
  BY <1>1, <1>3, Invariant, PTL DEF Spec, OrderSpec, Order!Spec, Order!Init, order

-----------------------------------------------------------------------------
(* Room for the entry of a write. *)

(* The commands of a write.                                                  *)
WriteOps == {"evict", "set", "size"}

(* What a step does to the task of a call. *)
LEMMA TaskChanges ==
    ASSUME CallInv, Next, NEW c \in Calls
    PROVE  \/ task'[c] = task[c]
           \/ Write(c) \/ Join(c) \/ GetUnknown(c) \/ SetDone(c) \/ Sized(c)
           \/ Evicted(c) \/ FailedEvict(c)
           \/ task'[c].op \notin WriteOps /\ (stale' = TRUE \/ task[c].op # "size")
<1> DEFINE Goal == \/ task'[c] = task[c]
                   \/ Write(c) \/ Join(c) \/ GetUnknown(c) \/ SetDone(c) \/ Sized(c)
                   \/ Evicted(c) \/ FailedEvict(c)
                   \/ task'[c].op \notin WriteOps /\ (stale' = TRUE \/ task[c].op # "size")
<1>0. /\ DOMAIN task = Procs /\ c \in Procs /\ Recovery \in Procs /\ Calls \subseteq Procs
      /\ c # Recovery /\ Idle.op \notin WriteOps
  BY CacheAssumption DEF CallInv, Procs, Idle, WriteOps
<1>1. ASSUME NEW d \in Calls, Enter(d) PROVE Goal
  <2>1. CASE Fallback(d)
    BY <2>1 DEF Fallback
  <2>2. CASE Start(d)
    <3>1. PICK t \in Requests : t.op # "set" /\ task' = [task EXCEPT ![d] = t]
      BY <2>2 DEF Start
    <3>2. t.op \notin WriteOps
      BY <3>1, RequestsOK DEF WriteOps
    <3>3. task[d].op = "idle"
      BY <2>2 DEF Start
    <3> QED
      BY <1>0, <3>1, <3>2, <3>3
  <2>3. CASE Write(d)
    BY <1>0, <2>3 DEF Write
  <2>4. CASE Join(d)
    <3>1. PICK t, u : task' = [task EXCEPT ![d] = t, ![Recovery] = u]
      <4>1. PICK t : task' = [task EXCEPT ![d] = t,
                               ![Recovery] = IF @.op = "idle" THEN Scan(Keys) ELSE @]
        BY <2>4 DEF Join
      <4>2. CASE task[Recovery].op = "idle"
        <5>1. task' = [task EXCEPT ![d] = t, ![Recovery] = Scan(Keys)]
          BY <1>0, <4>1, <4>2
        <5> QED
          BY <5>1
      <4>3. CASE task[Recovery].op # "idle"
        <5>1. task' = [task EXCEPT ![d] = t, ![Recovery] = task[Recovery]]
          BY <1>0, <4>1, <4>3
        <5> QED
          BY <5>1
      <4> QED
        BY <4>2, <4>3
    <3>2. CASE d = c
      BY <2>4, <3>2
    <3>3. CASE d # c
      BY <1>0, <3>1, <3>3
    <3> QED
      BY <3>2, <3>3
  <2> QED
    BY <1>1, <2>1, <2>2, <2>3, <2>4 DEF Enter
<1>2. ASSUME NEW p \in Procs, NEW t, Continue(p, t), p # c PROVE task'[c] = task[c]
  BY <1>0, <1>2, ContinueTask
<1>3. ASSUME NEW d \in Calls, d # c,
             \/ GetKnown(d) \/ GetUnknown(d) \/ GetMissing(d) \/ Adopted(d)
             \/ SetDone(d) \/ Sized(d) \/ Deleted(d) \/ Evicted(d)
             \/ FailedRead(d) \/ FailedSet(d) \/ FailedDelete(d) \/ FailedEvict(d)
      PROVE  Goal
  <2>1. \E t : Continue(d, t)
    <3>1. CASE \/ GetKnown(d) \/ GetUnknown(d) \/ GetMissing(d) \/ Adopted(d)
               \/ SetDone(d) \/ Sized(d) \/ Deleted(d) \/ Evicted(d)
      BY <3>1 DEF GetKnown, GetUnknown, GetMissing, Adopted, SetDone, Sized, Deleted, Evicted
    <3>2. CASE FailedRead(d) \/ FailedSet(d) \/ FailedDelete(d) \/ FailedEvict(d)
      BY <3>2 DEF FailedRead, FailedSet, FailedDelete, FailedEvict
    <3> QED
      BY <1>3, <3>1, <3>2
  <2> QED
    BY <1>0, <1>2, <1>3, <2>1
<1>4. ASSUME GetKnown(c) \/ GetMissing(c) \/ Adopted(c) \/ Deleted(c) PROVE Goal
  <2>1. task[c].op # "size" /\ Continue(c, Idle)
    BY <1>4 DEF GetKnown, GetMissing, Adopted, Deleted, Answered
  <2> QED
    BY <1>0, <2>1, ContinueTask
<1>5. ASSUME FailedRead(c) \/ FailedSet(c) \/ FailedDelete(c) PROVE Goal
  <2>1. stale' = TRUE /\ Continue(c, Idle)
    BY <1>5 DEF FailedRead, FailedSet, FailedDelete
  <2> QED
    BY <1>0, <2>1, ContinueTask
<1>6. ASSUME NEW p \in Procs, NEW S, Finish(p, S), task[p].op # "size" PROVE Goal
  BY <1>0, <1>6 DEF Finish
<1>7. ASSUME NEW p \in Procs, NEW t, Continue(p, t), t.op \in ScanOps, task[p].op \in ScanOps
      PROVE  Goal
  BY <1>0, <1>7, ContinueTask DEF ScanOps, WriteOps
<1>8. ASSUME NEW p \in Procs, Scanned(p) PROVE Goal
  <2>1. PICK V \in SUBSET task[p].keys \ {{}} :
           LET t == [task[p] EXCEPT !.keys = @ \ V, !.first = @ \cup (V \cap stored)]
           IN  Continue(p, IF t.keys = {} THEN [t EXCEPT !.op = "matching", !.keys = t.match]
                           ELSE t)
    BY <1>8 DEF Scanned
  <2> DEFINE t == [task[p] EXCEPT !.keys = @ \ V, !.first = @ \cup (V \cap stored)]
             u == IF t.keys = {} THEN [t EXCEPT !.op = "matching", !.keys = t.match] ELSE t
  <2>2. task[p] \in Task /\ task[p].op = "keys"
    BY <1>8 DEF Scanned, Answered, CallInv
  <2>3. t \in Task /\ t.op = "keys"
    BY <2>2 DEF Task
  <2>4. u.op \in {"keys", "matching"}
    <3> HIDE DEF t
    <3> QED
      BY <2>3 DEF Task
  <2>5. Continue(p, u)
    BY <2>1
  <2> HIDE DEF t, u
  <2> QED
    BY <1>7, <2>2, <2>4, <2>5 DEF ScanOps
<1>9. ASSUME NEW p \in Procs, ScannedAgain(p) PROVE Goal
  <2>1. PICK V \in SUBSET task[p].keys \ {{}} :
           LET t == [task[p] EXCEPT !.keys = @ \ V, !.found = @ \cup (V \cap stored)]
           IN  \/ Finish(p, {})
               \/ Continue(p, IF t.keys = {} THEN [t EXCEPT !.op = "del"] ELSE t)
    BY <1>9 DEF ScannedAgain
  <2> DEFINE t == [task[p] EXCEPT !.keys = @ \ V, !.found = @ \cup (V \cap stored)]
             u == IF t.keys = {} THEN [t EXCEPT !.op = "del"] ELSE t
  <2>2. task[p] \in Task /\ task[p].op = "matching"
    BY <1>9 DEF ScannedAgain, Answered, CallInv
  <2>3. t \in Task /\ t.op = "matching"
    BY <2>2 DEF Task
  <2>4. u.op \in {"matching", "del"}
    <3> HIDE DEF t
    <3> QED
      BY <2>3 DEF Task
  <2>5. Finish(p, {}) \/ Continue(p, u)
    BY <2>1
  <2> HIDE DEF t, u
  <2> QED
    BY <1>6, <1>7, <2>2, <2>4, <2>5 DEF ScanOps
<1>10. ASSUME NEW p \in Procs, MatchingDeleted(p) PROVE Goal
  <2>1. Finish(p, task[p].found) /\ task[p].op = "del"
    BY <1>10 DEF MatchingDeleted, Answered
  <2> QED
    BY <1>6, <2>1
<1>11. ASSUME NEW p \in Procs, FailedMatching(p) PROVE Goal
  BY <1>0, <1>11 DEF FailedMatching
<1>12. ASSUME OtherWrites \/ Expire PROVE Goal
  BY <1>12 DEF OtherWrites, Expire
<1>13. ASSUME GetUnknown(c) \/ SetDone(c) \/ Sized(c) \/ Evicted(c) \/ FailedEvict(c) PROVE Goal
  BY <1>13
<1> HIDE DEF Goal
<1>14. Goal
  BY <1>1, <1>3, <1>4, <1>5, <1>8, <1>9, <1>10, <1>11, <1>12, <1>13 DEF Next, Answer
<1> QED
  BY <1>14 DEF Goal

(* What a step does to the keys of the index. *)
LEMMA ForgetNodes ==
    ASSUME Inv, NEW S, Forget(S) PROVE index'.nodes = index.nodes \ S
<1>1. PICK q : Spells(index, q)
  BY DEF Inv, IndexInv, Spelled
<1>2. \E r : Spells(RemoveAll(index, S), r) /\ Listed(r) = Listed(q) \ S
  BY <1>1, RemoveAllSpells
<1> QED
  BY <1>1, <1>2 DEF Forget, Spells

(* Only the end of a recovery clears stale; it empties the index.           *)
LEMMA StaleEnds ==
    ASSUME Inv, Next, stale, ~stale'
    PROVE  index'.nodes = {}
<1>0. stale = TRUE
  BY DEF Inv, EntryInv, EntryTypes
<1>1. ASSUME NEW c \in Calls, Enter(c) PROVE FALSE
  BY <1>0, <1>1 DEF Enter, Fallback, Start, Write, Join
<1>2. ASSUME NEW c \in Calls,
             \/ GetKnown(c) \/ GetUnknown(c) \/ GetMissing(c) \/ Adopted(c)
             \/ SetDone(c) \/ Sized(c) \/ Deleted(c) \/ Evicted(c)
      PROVE  FALSE
  BY <1>2 DEF GetKnown, GetUnknown, GetMissing, Adopted, SetDone, Sized, Deleted, Evicted
<1>3. ASSUME NEW c \in Calls, FailedRead(c) \/ FailedSet(c) \/ FailedDelete(c) \/ FailedEvict(c)
      PROVE  FALSE
  BY <1>3 DEF FailedRead, FailedSet, FailedDelete, FailedEvict
<1>4. ASSUME NEW p \in Procs, NEW S, Finish(p, S) PROVE index'.nodes = {}
  <2>1. p = Recovery
    BY <1>4 DEF Finish
  <2>2. Forget(Keys)
    BY <1>4, <2>1 DEF Finish
  <2>3. index.nodes \subseteq Keys
    BY DEF Inv, IndexInv, Spelled, Spells, Index
  <2> QED
    BY <2>2, <2>3, ForgetNodes
<1>5. ASSUME NEW p \in Procs, Scanned(p) \/ ScannedAgain(p) \/ MatchingDeleted(p)
             \/ FailedMatching(p)
      PROVE  index'.nodes = {}
  <2>1. CASE Scanned(p) \/ FailedMatching(p)
    BY <2>1 DEF Scanned, FailedMatching
  <2>2. CASE ScannedAgain(p)
    BY <1>4, <2>2 DEF ScannedAgain
  <2>3. CASE MatchingDeleted(p)
    BY <1>4, <2>3 DEF MatchingDeleted
  <2> QED
    BY <1>5, <2>1, <2>2, <2>3
<1>6. ASSUME OtherWrites \/ Expire PROVE FALSE
  BY <1>6 DEF OtherWrites, Expire
<1> QED
  BY <1>1, <1>2, <1>3, <1>5, <1>6 DEF Next, Answer

(* Smaller sets of keys have smaller cardinalities.                          *)
LEMMA FewerKeys ==
    ASSUME NEW S, S \subseteq Keys, NEW T, T \subseteq S
    PROVE  /\ IsFiniteSet(S) /\ Cardinality(S) \in Nat /\ Cardinality(T) \in Nat
           /\ Cardinality(T) <= Cardinality(S)
           /\ Cardinality(T) = Cardinality(S) => T = S
           /\ Cardinality(S \ T) = Cardinality(S) - Cardinality(T)
<1>1. IsFiniteSet(S)
  BY FS_Subset, EvictionIndexAssumption
<1>2. /\ IsFiniteSet(T) /\ Cardinality(T) <= Cardinality(S)
      /\ Cardinality(T) = Cardinality(S) => T = S
  BY <1>1, FS_Subset
<1>3. S \cap T = T
  OBVIOUS
<1>4. Cardinality(S \ T) = Cardinality(S) - Cardinality(T)
  BY <1>1, <1>3, FS_Difference
<1> QED
  BY <1>1, <1>2, <1>4, FS_CardinalityType

(* The entries of the index are keys.                                        *)
LEMMA NodesAreKeys == ASSUME Inv PROVE index.nodes \subseteq Keys
BY DEF Inv, IndexInv, Spelled, Spells, Index

(* A write evicts as much as its entry needs, or all that is old enough.     *)
LEMMA WriteFits ==
    ASSUME Inv, Inv', NEW c \in Calls, Write(c)
    PROVE  /\ Fits(c)'
           /\ task'[c].op # "evict" => task'[c].keys = {}
<1>1. PICK k \in Keys, gone \in SUBSET Expirable :
         /\ Forget(gone)
         /\ \E young \in Young(index', ExcessAfter(gone)) :
            \E S \in Candidates(index', ExcessAfter(gone), young) :
              task' = [task EXCEPT ![c] = FirstOf(k, S, young)]
  BY DEF Write
<1>2. PICK young \in Young(index', ExcessAfter(gone)) :
         \E S \in Candidates(index', ExcessAfter(gone), young) :
              task' = [task EXCEPT ![c] = FirstOf(k, S, young)]
  BY <1>1
<1>3. PICK S \in Candidates(index', ExcessAfter(gone), young) :
              task' = [task EXCEPT ![c] = FirstOf(k, S, young)]
  BY <1>2
<1> DEFINE n == ExcessAfter(gone)
           N == index'.nodes
           old == N \ young
<1>4. Cardinality(meta \ gone) \in Nat /\ n \in Int /\ MaxItems \in Nat
      /\ n = Cardinality(meta \ gone) - MaxItems + 1
  <2>1. meta \ gone \subseteq Keys
    BY DEF Inv, KnownTypes, meta
  <2>2. Cardinality(meta \ gone) \in Nat
    BY <2>1, FewerKeys
  <2> QED
    BY <2>2, CacheAssumption DEF ExcessAfter
<1>5. N \subseteq Keys /\ N \subseteq meta \ gone /\ meta \ gone \subseteq Keys
  <2>1. N \subseteq Keys
    BY DEF Inv, IndexInv, Spelled, Spells, Index
  <2>2. N \subseteq meta \ gone
    BY <1>1 DEF Inv, IndexInv, IndexInStep, Forget, meta
  <2> QED
    BY <2>1, <2>2 DEF Inv, KnownTypes, meta
<1>6. Cardinality(N) \in Nat /\ Cardinality(N) <= Cardinality(meta \ gone)
  BY <1>5, FewerKeys
<1>0. n = Cardinality(meta \ gone) - MaxItems + 1
  BY <1>4
<1> HIDE DEF n, N
<1>7. /\ S \subseteq old
      /\ n <= 0 => S = {}
      /\ n > 0 => Cardinality(S) = IF n < Cardinality(old) THEN n ELSE Cardinality(old)
  <2> DEFINE l == index'
  <2>1. S \in Candidates(l, n, young)
    BY DEF n
  <2>2. N = l.nodes
    BY DEF N
  <2> HIDE DEF l
  <2>3. l.nodes \subseteq Keys
    BY <1>5, <2>2
  <2> QED
    BY <1>4, <2>1, <2>2, <2>3, CandidatesSize
<1>8. S \subseteq N /\ old \subseteq N /\ old \subseteq Keys
  BY <1>5, <1>7
<1>9. Cardinality(N \ S) < MaxItems \/ N \ S \subseteq young
  <2>1. CASE n <= 0
    <3>1. Cardinality(N) < MaxItems
      BY <1>0, <1>4, <1>6, <2>1
    <3>2. N \ S = N
      BY <1>7, <2>1
    <3> QED
      BY <3>1, <3>2
  <2>2. CASE n > 0 /\ n < Cardinality(old)
    <3>1. Cardinality(N \ S) = Cardinality(N) - n
      BY <1>5, <1>7, <1>8, <2>2, FewerKeys
    <3> QED
      BY <1>4, <1>6, <3>1
  <2>3. CASE n > 0 /\ ~(n < Cardinality(old))
    <3>1. Cardinality(S) = Cardinality(old)
      BY <1>7, <2>3
    <3>2. S = old
      BY <1>7, <1>8, <3>1, FewerKeys
    <3> QED
      BY <3>2
  <2> QED
    BY <1>4, <2>1, <2>2, <2>3
<1>10. /\ task'[c].op = (IF S = {} THEN "set" ELSE "evict") /\ task'[c].key = k
       /\ task'[c].keys = S /\ task'[c].spared = young \ {k}
  <2>1. c \in DOMAIN task
    BY DEF Inv, CallInv, Procs
  <2>2. task'[c] = FirstOf(k, S, young)
    BY <1>3, <2>1
  <2> QED
    BY <2>2, FirstOps
<1>11. Rest(c)' \subseteq N \ S /\ k \notin Rest(c)'
  BY <1>10 DEF Rest, N
<1>12. Fits(c)'
  <2>1. CASE Cardinality(N \ S) < MaxItems
    <3>1. /\ Cardinality(Rest(c)') \in Nat /\ Cardinality(N \ S) \in Nat
          /\ Cardinality(Rest(c)') <= Cardinality(N \ S)
      <4>1. N \ S \subseteq Keys
        BY <1>5
      <4> QED
        BY <1>11, <4>1, FewerKeys
    <3>2. Cardinality(Rest(c)') < MaxItems
      BY <1>4, <2>1, <3>1
    <3> QED
      BY <3>2 DEF Fits
  <2>2. CASE N \ S \subseteq young
    BY <1>10, <1>11, <2>2 DEF Fits
  <2> QED
    BY <1>9, <2>1, <2>2
<1> QED
  BY <1>10, <1>12

(* What is left to others grows by what they put into the index.             *)
LEMMA RestShrinks ==
    ASSUME Inv, Next, NEW c \in Writing, c \in Writing', task'[c].key = task[c].key,
           index'.nodes \ task'[c].keys \subseteq
              (index.nodes \ task[c].keys) \cup (index'.nodes \ index.nodes)
    PROVE  Rest(c)' \subseteq Rest(c)
<1>1. c \in Calls
  BY DEF Writing
<1>2. added'[c] = added[c] \cup (index'.nodes \ (index.nodes \cup {task[c].key}))
  BY <1>1 DEF Next
<1> QED
  BY <1>2 DEF Rest

(* It keeps its room then.                                                   *)
LEMMA FitsKept ==
    ASSUME Inv, NEW c, Fits(c), Rest(c)' \subseteq Rest(c), task'[c].spared = task[c].spared
    PROVE  Fits(c)'
<1>1. CASE Rest(c) \subseteq task[c].spared
  BY <1>1 DEF Fits
<1>2. CASE Cardinality(Rest(c)) < MaxItems
  <2>1. Rest(c) \subseteq Keys
    BY NodesAreKeys DEF Rest
  <2>2. /\ Cardinality(Rest(c)') \in Nat /\ Cardinality(Rest(c)) \in Nat
        /\ Cardinality(Rest(c)') <= Cardinality(Rest(c))
    BY <2>1, FewerKeys
  <2>3. Cardinality(Rest(c)') < MaxItems
    BY <1>2, <2>2, CacheAssumption
  <2> QED
    BY <2>3 DEF Fits
<1> QED
  BY <1>1, <1>2 DEF Fits

(* Each step keeps the room of the writes.                                   *)
LEMMA RoomStep ==
    ASSUME Inv, Inv', RoomFor, Next
    PROVE  RoomFor'
<1> DEFINE Good(c) == /\ task'[c].op # "evict" => task'[c].keys = {}
                      /\ task'[c].op = "evict" \/ ~stale' => Fits(c)'
<1> SUFFICES ASSUME NEW c \in Writing' PROVE Good(c)
  BY DEF RoomFor
<1>1. c \in Calls /\ c \in Procs /\ task'[c].op \in WriteOps /\ MaxItems \in Nat \ {0}
  BY CacheAssumption DEF Writing, WriteOps, Procs
<1>2. c \in Writing => /\ task[c].op # "evict" => task[c].keys = {}
                       /\ task[c].op = "evict" \/ ~stale => Fits(c)
  BY DEF RoomFor
<1>3. \A q \in Procs : \A t : Continue(q, t) => task'[q] = t
  BY ContinueTask DEF Inv
<1>4. task[c] \in Task
  BY <1>1 DEF Inv, CallInv
<1>5. CASE task'[c] = task[c]
  <2>1. c \in Writing
    BY <1>1, <1>5 DEF Writing, WriteOps
  <2>2. Rest(c)' \subseteq Rest(c)
    BY <1>5, <2>1, RestShrinks
  <2>3. ASSUME task'[c].op = "evict" \/ ~stale' PROVE Fits(c)'
    <3>1. CASE task[c].op = "evict" \/ ~stale
      BY <1>2, <1>5, <2>1, <2>2, <3>1, FitsKept
    <3>2. CASE stale /\ ~stale'
      <4>1. Rest(c)' = {}
        BY <3>2, StaleEnds DEF Rest
      <4> QED
        BY <4>1 DEF Fits
    <3> QED
      BY <1>5, <2>3, <3>1, <3>2
  <2> QED
    BY <1>2, <1>5, <2>1, <2>3
<1>6. CASE Write(c)
  BY <1>1, <1>6, WriteFits
<1>7. CASE Join(c)
  <2>1. stale /\ stale' = stale
    BY <1>7 DEF Join
  <2>2. PICK t \in Requests :
           task' = [task EXCEPT ![c] = t,
                    ![Recovery] = IF @.op = "idle" THEN Scan(Keys) ELSE @]
    BY <1>7 DEF Join
  <2>3. task'[c] = t
    <3>1. PICK u : task' = [task EXCEPT ![c] = t, ![Recovery] = u]
      <4>1. CASE task[Recovery].op = "idle"
        <5>1. task' = [task EXCEPT ![c] = t, ![Recovery] = Scan(Keys)]
          BY <2>2, <4>1, CacheAssumption, <1>1
        <5> QED
          BY <5>1
      <4>2. CASE task[Recovery].op # "idle"
        <5>1. task' = [task EXCEPT ![c] = t, ![Recovery] = task[Recovery]]
          BY <2>2, <4>2, CacheAssumption, <1>1
        <5> QED
          BY <5>1
      <4> QED
        BY <4>1, <4>2
    <3>2. c # Recovery /\ DOMAIN task = Procs
      BY <1>1, CacheAssumption DEF Inv, CallInv
    <3> QED
      BY <1>1, <3>1, <3>2
  <2>4. t.op # "evict" /\ t.keys = {}
    <3>1. CASE t.op = "keys"
      BY <1>1, <2>3, <3>1 DEF WriteOps
    <3>2. ASSUME NEW op, NEW k, t = One(op, k) PROVE t.keys = {}
      BY <3>2 DEF One, Idle
    <3>3. ASSUME NEW M, t = Scan(M) PROVE t.op = "keys"
      BY <3>3 DEF Scan, Idle
    <3> QED
      BY <3>1, <3>2, <3>3, RequestsOK DEF Requests
  <2> QED
    BY <2>1, <2>3, <2>4
<1>8. CASE GetUnknown(c)
  <2>1. task'[c].op = "adopt"
    BY <1>3, <1>1, <1>8 DEF GetUnknown, One, Idle
  <2> QED
    BY <1>1, <2>1 DEF WriteOps
<1>9. CASE SetDone(c)
  <2>1. task[c].op = "set" /\ index' = index /\ stale' = stale
    BY <1>9 DEF SetDone, Answered, knownVars
  <2>2. task'[c] = [task[c] EXCEPT !.op = "size"]
    BY <1>1, <1>3, <1>9 DEF SetDone
  <2>3. /\ task'[c].op = "size" /\ task'[c].key = task[c].key /\ task'[c].keys = task[c].keys
        /\ task'[c].spared = task[c].spared
    BY <1>4, <2>2 DEF Task
  <2>4. c \in Writing
    BY <1>1, <2>1 DEF Writing
  <2>5. Rest(c)' \subseteq Rest(c)
    BY <2>1, <2>3, <2>4, RestShrinks
  <2>6. ~stale' => Fits(c)'
    BY <1>2, <2>1, <2>3, <2>4, <2>5, FitsKept
  <2> QED
    BY <1>2, <2>1, <2>3, <2>4, <2>6
<1>10. CASE Evicted(c) \/ FailedEvict(c)
  <2>1. task[c].op = "evict"
    BY <1>10 DEF Evicted, FailedEvict, Answered
  <2>2. task'[c] = [task[c] EXCEPT !.op = "set", !.keys = {}]
    BY <1>1, <1>3, <1>10 DEF Evicted, FailedEvict
  <2>3. /\ task'[c].op = "set" /\ task'[c].key = task[c].key /\ task'[c].keys = {}
        /\ task'[c].spared = task[c].spared
    BY <1>4, <2>2 DEF Task
  <2>4. c \in Writing
    BY <1>1, <2>1 DEF Writing
  <2>5. CASE Evicted(c)
    <3>1. Forget(task[c].keys)
      BY <2>5 DEF Evicted
    <3>2. index'.nodes = index.nodes \ task[c].keys
      BY <3>1, ForgetNodes
    <3>3. Rest(c)' \subseteq Rest(c)
      BY <2>3, <2>4, <3>2, RestShrinks
    <3>4. Fits(c)'
      BY <1>2, <2>1, <2>3, <2>4, <3>3, FitsKept
    <3> QED
      BY <2>3, <3>4
  <2>6. CASE FailedEvict(c)
    <3>1. stale' = TRUE
      BY <2>6 DEF FailedEvict
    <3> QED
      BY <2>3, <3>1
  <2> QED
    BY <1>10, <2>5, <2>6
<1>11. CASE Sized(c)
  <2>1. task'[c].op = "idle"
    BY <1>1, <1>3, <1>11 DEF Sized, Idle
  <2> QED
    BY <1>1, <2>1 DEF WriteOps
<1> QED
  BY <1>1, <1>5, <1>6, <1>7, <1>8, <1>9, <1>10, <1>11, TaskChanges DEF Inv

(* Of the entries the others have not added since it started, a write leaves *)
(* MAX_ITEMS with its own at the most, or else its own and those it found in *)
(* their grace period (evictExcessEntries of cache.ts counts the entries     *)
(* before its own is added), also when writes, deletions and recoveries      *)
(* overlap with it.                                                          *)
THEOREM WritesMakeRoom == Spec => WriteMakesRoom
<1> DEFINE Room(c) ==
              LET rest == index'.nodes \ added[c]
              IN  \/ Cardinality(rest) <= MaxItems
                  \/ rest \subseteq task[c].spared \cup {task[c].key}
<1>1. Init => RoomFor
  BY DEF Init, RoomFor, Writing, Idle, Procs
<1>2. ASSUME Inv /\ RoomFor, [Next]_vars PROVE (Inv /\ RoomFor)'
  <2>1. CASE Next
    BY <1>2, <2>1, InvStep, RoomStep
  <2>2. CASE UNCHANGED vars
    <3>1. RoomFor'
      BY <1>2, <2>2 DEF vars, RoomFor, Writing, Fits, Rest
    <3> QED
      BY <1>2, <3>1, InvStep
  <2> QED
    BY <1>2, <2>1, <2>2
<1>3. ASSUME Inv, RoomFor, Next, NEW c \in Calls,
             task[c].op = "size", task'[c].op = "idle", ~stale'
      PROVE  Room(c)
  <2> DEFINE k == task[c].key
             rest == index'.nodes \ added[c]
  <2>1. CASE Sized(c)
    <3>1. c \in Writing /\ stale' = stale /\ index' = Add(strategy, index, k)
      BY <1>3, <2>1 DEF Sized, Writing
    <3>2. Fits(c) /\ Rest(c) = index.nodes \ (added[c] \cup {k})
      BY <1>3, <3>1 DEF RoomFor, Rest
    <3>3. PICK q : Spells(index, q)
      BY <1>3 DEF Inv, IndexInv, Spelled
    <3>4. k \in Keys
      BY <1>3 DEF Inv, CallInv, TasksOf, KeyGiven, Procs
    <3>5. index'.nodes = index.nodes \cup {k}
      <4>1. PICK r : /\ Spells(Add(strategy, index, k), r)
                     /\ Listed(r) = Listed(q) \cup {k}
        BY <3>3, <3>4, AddSpells
      <4> QED
        BY <3>1, <3>3, <4>1 DEF Spells
    <3>6. rest \subseteq Rest(c) \cup {k} /\ Rest(c) \subseteq Keys /\ k \notin Rest(c)
      BY <1>3, <3>2, <3>5, NodesAreKeys
    <3>7. CASE Rest(c) \subseteq task[c].spared
      BY <3>6, <3>7
    <3>8. CASE Cardinality(Rest(c)) < MaxItems
      <4>1. /\ Cardinality(Rest(c) \cup {k}) = Cardinality(Rest(c)) + 1
            /\ Cardinality(Rest(c)) \in Nat
        BY <3>6, FewerKeys, FS_AddElement
      <4>2. /\ Cardinality(rest) \in Nat
            /\ Cardinality(rest) <= Cardinality(Rest(c) \cup {k})
        BY <3>4, <3>6, FewerKeys
      <4>3. Cardinality(rest) <= MaxItems
        BY <3>8, <4>1, <4>2, CacheAssumption
      <4> QED
        BY <4>3
    <3> QED
      BY <3>2, <3>7, <3>8 DEF Fits
  <2>2. CASE ~Sized(c)
    <3>1. ASSUME Write(c) \/ Join(c) \/ GetUnknown(c) \/ SetDone(c) \/ Evicted(c)
                 \/ FailedEvict(c)
          PROVE  task[c].op # "size"
      BY <3>1 DEF Write, Join, GetUnknown, SetDone, Evicted, FailedEvict, Answered
    <3> QED
      BY <1>3, <2>2, <3>1, TaskChanges DEF Inv
  <2> QED
    BY <2>1, <2>2
<1>4. ASSUME Inv /\ RoomFor, [Next]_vars
      PROVE  [\A c \in Calls :
                task[c].op = "size" /\ task'[c].op = "idle" /\ ~stale' => Room(c)]_vars
  BY <1>3, <1>4
<1> QED
  BY <1>1, <1>2, <1>4, InitInv, PTL DEF Spec, WriteMakesRoom

-----------------------------------------------------------------------------
(* What the run checks of the heap, from what it does for any keys. *)
LEMMA HeapLowest == HeapSelects
<1> SUFFICES ASSUME NEW m \in HeapMetas, NEW count \in 0 .. 3, NEW grace \in 0 .. 1
             PROVE  LET keys == LfuCandidates(m, [i \in HeapKeys |-> i], count, grace)
                        S    == {keys[i] : i \in DOMAIN keys}
                    IN  Len(keys) = Cardinality(S) /\ LowestScores(S, m, count, grace)
  BY DEF HeapSelects
<1> DEFINE order == [i \in HeapKeys |-> i]
           keys == LfuCandidates(m, order, count, grace)
           S == {keys[i] : i \in DOMAIN keys}
<1>1. DOMAIN m = HeapKeys /\ m \in [DOMAIN m -> [used : Nat, age : Nat]]
  BY DEF HeapMetas
<1>2. IsFiniteSet(DOMAIN m)
  <2>1. \A n \in Nat : IsFiniteSet(1 .. n)
    BY FS_Interval
  <2>2. IsFiniteSet(HeapKeys)
    BY <2>1 DEF HeapKeys
  <2> QED
    BY <1>1, <2>2
<1>3. order \in Seq(DOMAIN m) /\ Distinct(order) /\ Listed(order) = DOMAIN m
  BY <1>1 DEF HeapKeys, Distinct, Listed
<1>4. count \in Int /\ grace \in Nat
  OBVIOUS
<1> HIDE DEF order
<1>5. keys \in Seq(DOMAIN m) /\ Distinct(keys) /\ LowestScores(Listed(keys), m, count, grace)
  BY <1>1, <1>2, <1>3, <1>4, LfuLowest
<1> HIDE DEF keys
<1>6. S = Listed(keys)
  BY <1>5 DEF Listed
<1>7. Len(keys) = Cardinality(Listed(keys))
  BY <1>5, DistinctCardinality
<1> QED
  BY <1>5, <1>6, <1>7 DEF keys, order

(* In every state of a cache with the LFU index, the candidates are those    *)
(* with the lowest scores: a consequence of LfuLowest, which says it of any  *)
(* metadata.                                                                 *)
THEOREM LfuSelects == Spec => []LfuSelectsLowest
<1>1. LfuSelectsLowest
  BY HeapLowest DEF LfuSelectsLowest
<1> QED
  BY <1>1, PTL
=============================================================================
