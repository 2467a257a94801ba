--------------------------- MODULE InMemoryProofs ---------------------------
(***************************************************************************)
(* Proofs about InMemory for every number of callers, attempts to lock and *)
(* keys, every size, limit and time, and whatever is done meanwhile.       *)
(*                                                                         *)
(* The lock: every action does one of five things to it; the others leave  *)
(* it alone.  The invariant says in addition to HolderIsLocked that a lock *)
(* that has time left has an owner.                                        *)
(*                                                                         *)
(* The storage: an invariant of the storage as a value (StorageOK) says    *)
(* that the order has no key twice, that what is not in it has size 0 and  *)
(* that the approximate size is no less than the sum of the sizes; each    *)
(* operation on the value keeps it.  Most steps are calm, they add nothing *)
(* to the storage; those that are left are Store, Evict and UseValid.      *)
(***************************************************************************)
EXTENDS InMemory, SequenceTheorems, LeastElement

(* The types of the lock and of the leases.                                  *)
LockType ==
    /\ lock \in [owner : Callers \cup {Nobody}, left : Expired .. ExpireMs]
    /\ lease \in [Callers -> NoLease .. ExpireMs]

(* The invariant: a lock that has time left has an owner, who has no lease   *)
(* that lasts longer.                                                        *)
LockInv ==
    /\ LockType
    /\ lock.left # Expired => lock.owner \in Callers
    /\ HolderIsLocked

-----------------------------------------------------------------------------
(* What a step does to the lock.                                             *)

Same == UNCHANGED <<lock, lease>>

Swept == lock' = (IF lock.left = Expired THEN Free ELSE lock) /\ UNCHANGED lease

Acquired(c) ==
    /\ ~Taken
    /\ lock' = [owner |-> c, left |-> ExpireMs]
    /\ lease' = [lease EXCEPT ![c] = ExpireMs]

Released(c) ==
    /\ lease[c] # NoLease
    /\ lock' = IF Owns(c) THEN Free ELSE lock
    /\ lease' = [lease EXCEPT ![c] = NoLease]

Aged ==
    /\ lock' = [lock EXCEPT !.left = Sooner(@)]
    /\ lease' = [c \in Callers |-> Sooner(lease[c])]

LockStep == Same \/ Swept \/ Aged \/ \E c \in Callers : Acquired(c) \/ Released(c)

(* An attempt takes the lock or leaves it alone.                             *)
LEMMA AttemptStep ==
    ASSUME NEW c \in Callers, NEW n, Attempt(c, n) PROVE Same \/ Acquired(c)
BY DEF Attempt, Same, Acquired

(* A call of a method takes, sweeps or leaves the lock.                      *)
LEMMA CallStep == ASSUME NEW c \in Callers, Call(c) PROVE LockStep
<1>1. CASE Set(c) \/ GetExpired(c)
  <2>1. Swept
    BY <1>1 DEF Set, GetExpired, Cleanup, Swept
  <2> QED
    BY <2>1 DEF LockStep
<1>2. CASE Delete(c) \/ ListKeys(c) \/ Use(c)
  <2>1. Same
    BY <1>2 DEF Delete, ListKeys, Use, Same
  <2> QED
    BY <2>1 DEF LockStep
<1>3. CASE Lock(c)
  <2>1. Attempt(c, 0)
    BY <1>3 DEF Lock
  <2> QED
    BY <2>1, AttemptStep DEF LockStep
<1>4. CASE Release(c)
  <2>1. Released(c)
    BY <1>4 DEF Release, Released
  <2> QED
    BY <2>1 DEF LockStep
<1> QED
  BY <1>1, <1>2, <1>3, <1>4 DEF Call

(* A call that goes on takes, releases, sweeps or leaves the lock.           *)
LEMMA GoOnStep == ASSUME NEW c \in Callers, GoOn(c) PROVE LockStep
<1>1. CASE UseReplaced(c)
  <2>1. Swept
    BY <1>1 DEF UseReplaced, Cleanup, Swept
  <2> QED
    BY <2>1 DEF LockStep
<1>2. CASE Store(c) \/ Evict(c) \/ DeleteMatching(c)
  <2>1. Same
    BY <1>2 DEF Store, Evict, DeleteMatching, Same
  <2> QED
    BY <2>1 DEF LockStep
<1>3. CASE UseValid(c) \/ UseRevoked(c) \/ UseRejected(c)
  <2>1. Same
    BY <1>3 DEF UseValid, UseRevoked, UseRejected, Same
  <2> QED
    BY <2>1 DEF LockStep
<1>4. CASE Retry(c)
  <2>1. Attempt(c, NextRetry(c)) \/ Same
    BY <1>4 DEF Retry, Same
  <2> QED
    BY <2>1, AttemptStep DEF LockStep
<1> QED
  BY <1>1, <1>2, <1>3, <1>4 DEF GoOn

(* Every step does one of the five things to the lock.                       *)
LEMMA NextStep == ASSUME [Next]_vars PROVE LockStep
<1>1. CASE Tick
  <2>1. Aged
    BY <1>1 DEF Tick, Aged
  <2> QED
    BY <2>1 DEF LockStep
<1>2. CASE UNCHANGED vars
  <2>1. Same
    BY <1>2 DEF vars, Same
  <2> QED
    BY <2>1 DEF LockStep
<1> QED
  BY <1>1, <1>2, CallStep, GoOnStep DEF Next

-----------------------------------------------------------------------------
(* The lock is free at the start.                                            *)
LEMMA InitLock == Init => LockInv
BY InMemoryAssumption DEF Init, LockInv, LockType, HolderIsLocked, Free, Expired, NoLease

(* Each of the five things keeps the invariant.                              *)
LEMMA StepLock == ASSUME LockInv, LockStep PROVE LockInv'
<1> USE InMemoryAssumption DEF LockInv, LockType, HolderIsLocked, Expired, NoLease
<1>1. CASE Same
  BY <1>1 DEF Same
<1>2. CASE Swept
  BY <1>2 DEF Swept, Free
<1>3. CASE Aged
  <2>1. LockType'
    BY <1>3 DEF Aged, Sooner
  <2>2. ASSUME lock'.left # Expired PROVE lock'.owner \in Callers
    BY <1>3, <2>2 DEF Aged, Sooner
  <2>3. HolderIsLocked'
    BY <1>3 DEF Aged, Sooner
  <2> QED
    BY <2>1, <2>2, <2>3
<1>4. ASSUME NEW c \in Callers, Acquired(c) PROVE LockInv'
  <2>1. LockType'
    BY <1>4 DEF Acquired
  <2>2. \A d \in Callers : lease[d] \notin 0 .. ExpireMs
    BY <1>4 DEF Acquired, Taken
  <2>3. HolderIsLocked'
    BY <1>4, <2>2 DEF Acquired
  <2> QED
    BY <1>4, <2>1, <2>3 DEF Acquired
<1>5. ASSUME NEW c \in Callers, Released(c) PROVE LockInv'
  <2>1. LockType'
    BY <1>5 DEF Released, Free
  <2>2. HolderIsLocked'
    BY <1>5 DEF Released, Owns
  <2> QED
    BY <1>5, <2>1, <2>2 DEF Released, Free
<1> QED
  BY <1>1, <1>2, <1>3, <1>4, <1>5 DEF LockStep

(* The invariant of the lock, for every step.                                *)
LEMMA LockInvariant == Spec => []LockInv
<1>1. LockInv /\ [Next]_vars => LockInv'
  BY NextStep, StepLock
<1> QED
  BY <1>1, InitLock, PTL DEF Spec

(* The lock of InMemory.lock: whoever holds a lock that has not expired is   *)
(* its owner, with the time it counts on, for every interleaving of locks,   *)
(* late releases, clean ups and attempts.                                    *)
THEOREM HolderKept == Spec => []HolderIsLocked
<1>1. LockInv => HolderIsLocked
  BY DEF LockInv
<1> QED
  BY <1>1, LockInvariant, PTL

(* The variables of the abstract lease.                                      *)
Holder  == IF lock.left = Expired THEN Nobody ELSE lock.owner
Left    == IF lock.left = Expired THEN 0 ELSE lock.left
Handles == {c \in Callers : lease[c] # NoLease}

(* The lock implements the abstract lease: it is taken only when free, and   *)
(* it ends by a release of its holder or when its time is over, whatever     *)
(* clean ups, attempts and releases of expired locks there are.              *)
THEOREM ImplementsLease == Spec => LeaseSpec
<1> USE InMemoryAssumption DEF Expired, NoLease, Holder, Left, Handles
<1>1. Init => LeaseOfLock!Init
  BY DEF Init, Free, LeaseOfLock!Init
<1>2. ASSUME LockInv, LockStep
      PROVE  LeaseOfLock!Next \/ UNCHANGED <<Holder, Left, Handles>>
  <2>1. CASE Same \/ Swept
    BY <1>2, <2>1 DEF LockInv, LockType, Same, Swept, Free
  <2>2. CASE Aged
    <3>1. Handles' = Handles
      BY <1>2, <2>2 DEF LockInv, LockType, Aged, Sooner
    <3>2. CASE lock.left = Expired
      BY <1>2, <2>2, <3>1, <3>2 DEF LockInv, LockType, Aged, Sooner
    <3>3. CASE lock.left # Expired
      <4>1. /\ lock.owner \in Callers /\ lock.left \in 0 .. ExpireMs
            /\ lock'.owner = lock.owner /\ lock'.left = lock.left - 1
        BY <1>2, <2>2, <3>3 DEF LockInv, LockType, Aged, Sooner
      <4>2. LeaseOfLock!Pass
        BY <3>1, <3>3, <4>1 DEF LeaseOfLock!Pass
      <4> QED
        BY <4>2 DEF LeaseOfLock!Next
    <3> QED
      BY <3>2, <3>3
  <2>3. ASSUME NEW c \in Callers, Acquired(c) PROVE LeaseOfLock!Acquire(c)
    <3>1. Handles' = Handles \cup {c}
      BY <1>2, <2>3 DEF LockInv, LockType, Acquired
    <3> QED
      BY <1>2, <2>3, <3>1 DEF Acquired, Taken, LeaseOfLock!Acquire
  <2>4. ASSUME NEW c \in Callers, Released(c) PROVE LeaseOfLock!Release(c)
    <3>1. c \in Handles /\ Handles' = Handles \ {c}
      BY <1>2, <2>4 DEF LockInv, LockType, Released
    <3>2. IF Holder = c THEN Holder' = Nobody /\ Left' = 0 ELSE UNCHANGED <<Holder, Left>>
      BY <1>2, <2>4 DEF LockInv, LockType, Released, Owns, Free
    <3> QED
      BY <3>1, <3>2 DEF LeaseOfLock!Release
  <2> QED
    BY <1>2, <2>1, <2>2, <2>3, <2>4 DEF LockStep, LeaseOfLock!Next
<1>3. LockInv /\ [Next]_vars => [LeaseOfLock!Next]_<<Holder, Left, Handles>>
  BY <1>2, NextStep
<1> QED
  BY <1>1, <1>3, LockInvariant, PTL
     DEF Spec, LeaseSpec, LeaseOfLock!Spec, Holder, Left, Handles

-----------------------------------------------------------------------------
(* The lists of keys.                                                        *)

(* The keys of a list.                                                       *)
Listed(q) == {q[i] : i \in DOMAIN q}

(* A list without repetitions.                                               *)
Distinct(q) == \A i, j \in DOMAIN q : q[i] = q[j] => i = j

(* What the recursive function of Rest is.                                   *)
IsRest(r, q, S, n) ==
    r = [i \in 0 .. n |-> IF i = 0 THEN <<>>
                          ELSE IF q[i] \in S THEN r[i - 1] ELSE Append(r[i - 1], q[i])]

(* Its values.                                                               *)
LEMMA RestValue ==
    ASSUME NEW r, NEW q, NEW S, NEW n \in Nat, IsRest(r, q, S, n), NEW i \in 0 .. n
    PROVE  r[i] = IF i = 0 THEN <<>>
                  ELSE IF q[i] \in S THEN r[i - 1] ELSE Append(r[i - 1], q[i])
<1> DEFINE Body(j) == IF j = 0 THEN <<>>
                      ELSE IF q[j] \in S THEN r[j - 1] ELSE Append(r[j - 1], q[j])
<1>1. r = [j \in 0 .. n |-> Body(j)]
  BY DEF IsRest
<1>2. r[i] = Body(i)
  <2> HIDE DEF Body
  <2> QED
    BY <1>1
<1> QED
  BY <1>2

(* It exists: by the least length for which not.                             *)
LEMMA RestExists ==
    ASSUME NEW q, NEW S, NEW len \in Nat PROVE \E r : IsRest(r, q, S, len)
<1> DEFINE T == {n \in Nat : ~ \E r : IsRest(r, q, S, n)}
<1>1. ASSUME T # {} PROVE FALSE
  <2>0. T \in SUBSET Nat
    OBVIOUS
  <2>1. PICK n \in T : \A m \in T : n <= m
    <3> HIDE DEF T
    <3> QED
      BY <1>1, <2>0, LeastOf
  <2>2. n \in Nat /\ ~ \E r : IsRest(r, q, S, n)
    OBVIOUS
  <2>3. n # 0
    <3>1. IsRest([i \in 0 .. 0 |-> <<>>], q, S, 0)
      BY DEF IsRest
    <3> QED
      BY <2>2, <3>1
  <2>4. n - 1 \in Nat /\ n - 1 \notin T
    <3> HIDE DEF T
    <3> QED
      BY <2>1, <2>2, <2>3
  <2>5. PICK r : IsRest(r, q, S, n - 1)
    BY <2>4
  <2> DEFINE h == [i \in 0 .. n |-> IF i < n THEN r[i]
                                    ELSE IF q[n] \in S THEN r[n - 1]
                                    ELSE Append(r[n - 1], q[n])]
  <2>6. ASSUME NEW i \in 0 .. n
        PROVE  h[i] = IF i = 0 THEN <<>>
                      ELSE IF q[i] \in S THEN h[i - 1] ELSE Append(h[i - 1], q[i])
    <3>1. CASE i = n
      <4>1. h[n - 1] = r[n - 1]
        BY <2>2, <2>3
      <4> HIDE DEF h
      <4>2. h[n] = IF q[n] \in S THEN r[n - 1] ELSE Append(r[n - 1], q[n])
        BY <2>2 DEF h
      <4> QED
        BY <2>3, <3>1, <4>1, <4>2
    <3>2. CASE i < n
      <4>1. h[i] = r[i] /\ (i # 0 => h[i - 1] = r[i - 1])
        BY <2>2, <3>2
      <4>2. r[i] = IF i = 0 THEN <<>>
                   ELSE IF q[i] \in S THEN r[i - 1] ELSE Append(r[i - 1], q[i])
        <5>1. n - 1 \in Nat /\ i \in 0 .. (n - 1)
          BY <2>2, <2>4, <3>2
        <5> QED
          BY <2>5, <5>1, RestValue
      <4> HIDE DEF h
      <4> QED
        BY <4>1, <4>2
    <3> QED
      BY <2>2, <3>1, <3>2
  <2>7. IsRest(h, q, S, n)
    BY <2>6 DEF IsRest
  <2> QED
    BY <2>2, <2>7
<1> QED
  BY <1>1

(* A key that is not in the list makes it longer by that key.                *)
LEMMA AppendDistinct ==
    ASSUME NEW p \in Seq(Keys), Distinct(p), NEW k \in Keys, k \notin Listed(p)
    PROVE  /\ Append(p, k) \in Seq(Keys) /\ Distinct(Append(p, k))
           /\ Listed(Append(p, k)) = Listed(p) \cup {k}
<1>1. /\ Append(p, k) \in Seq(Keys) /\ Len(p) \in Nat
      /\ DOMAIN Append(p, k) = 1 .. (Len(p) + 1) /\ DOMAIN p = 1 .. Len(p)
      /\ Append(p, k)[Len(p) + 1] = k
      /\ \A i \in 1 .. Len(p) : Append(p, k)[i] = p[i]
  BY AppendProperties, LenProperties
<1>2. Distinct(Append(p, k))
  <2>1. \A i \in 1 .. Len(p) : p[i] # k
    BY <1>1 DEF Listed
  <2>2. \A i, j \in 1 .. Len(p) : p[i] = p[j] => i = j
    BY <1>1 DEF Distinct
  <2>3. \A i, j \in 1 .. (Len(p) + 1) : Append(p, k)[i] = Append(p, k)[j] => i = j
    BY <1>1, <2>1, <2>2
  <2> QED
    BY <1>1, <2>3 DEF Distinct
<1>3. Listed(Append(p, k)) = Listed(p) \cup {k}
  <2>1. Listed(Append(p, k)) = {Append(p, k)[i] : i \in 1 .. (Len(p) + 1)}
    BY <1>1 DEF Listed
  <2>2. Listed(p) = {p[i] : i \in 1 .. Len(p)}
    BY <1>1 DEF Listed
  <2> QED
    BY <1>1, <2>1, <2>2
<1> QED
  BY <1>1, <1>2, <1>3

(* The rest of a list without repetitions is one as well, of its other keys. *)
LEMMA RestIs ==
    ASSUME NEW q \in Seq(Keys), Distinct(q), NEW S
    PROVE  Rest(q, S) \in Seq(Keys) /\ Distinct(Rest(q, S)) /\ Listed(Rest(q, S)) = Listed(q) \ S
<1> DEFINE r == CHOOSE r : IsRest(r, q, S, Len(q))
           Upto(n) == {q[i] : i \in 1 .. n} \ S
           Good(n) == r[n] \in Seq(Keys) /\ Distinct(r[n]) /\ Listed(r[n]) = Upto(n)
           T == {n \in 0 .. Len(q) : ~Good(n)}
<1>1. Len(q) \in Nat /\ DOMAIN q = 1 .. Len(q) /\ \A i \in 1 .. Len(q) : q[i] \in Keys
  BY LenProperties, ElementOfSeq
<1>2. IsRest(r, q, S, Len(q))
  BY <1>1, RestExists
<1>3. Rest(q, S) = r[Len(q)]
  BY DEF Rest, IsRest
<1> HIDE DEF r
<1>4. /\ r[0] = <<>>
      /\ \A n \in 1 .. Len(q) : r[n] = IF q[n] \in S THEN r[n - 1] ELSE Append(r[n - 1], q[n])
  <2>1. \A n \in 0 .. Len(q) :
          r[n] = IF n = 0 THEN <<>>
                 ELSE IF q[n] \in S THEN r[n - 1] ELSE Append(r[n - 1], q[n])
    BY <1>1, <1>2, RestValue
  <2>2. \A n \in 1 .. Len(q) : n \in 0 .. Len(q) /\ n # 0
    BY <1>1
  <2> QED
    BY <1>1, <2>1, <2>2
<1>5. Good(0)
  BY <1>4 DEF Distinct, Listed
<1>6. ASSUME NEW n \in 1 .. Len(q), Good(n - 1) PROVE Good(n)
  <2>1. Upto(n) = IF q[n] \in S THEN Upto(n - 1) ELSE Upto(n - 1) \cup {q[n]}
    <3>1. 1 .. n = (1 .. (n - 1)) \cup {n}
      BY <1>1
    <3> QED
      BY <3>1
  <2>2. CASE q[n] \in S
    BY <1>4, <1>6, <2>1, <2>2
  <2>3. CASE q[n] \notin S
    <3>1. r[n] = Append(r[n - 1], q[n])
      BY <1>4, <2>3
    <3>2. q[n] \notin Upto(n - 1)
      <4>1. \A i \in 1 .. (n - 1) : q[i] # q[n]
        BY <1>1 DEF Distinct
      <4> QED
        BY <4>1
    <3> DEFINE p == r[n - 1]
    <3>3. p \in Seq(Keys) /\ Distinct(p) /\ Listed(p) = Upto(n - 1) /\ r[n] = Append(p, q[n])
      BY <1>6, <3>1
    <3>4. q[n] \in Keys
      BY <1>1
    <3> HIDE DEF p, Upto
    <3>5. /\ Append(p, q[n]) \in Seq(Keys) /\ Distinct(Append(p, q[n]))
          /\ Listed(Append(p, q[n])) = Listed(p) \cup {q[n]}
      BY <3>2, <3>3, <3>4, AppendDistinct
    <3> QED
      BY <2>1, <2>3, <3>3, <3>5
  <2> QED
    BY <2>2, <2>3
<1>7. ASSUME T # {} PROVE FALSE
  <2>0. T \in SUBSET Nat
    BY <1>1
  <2>1. PICK n \in T : \A m \in T : n <= m
    <3> HIDE DEF T
    <3> QED
      BY <1>7, <2>0, LeastOf
  <2>2. n \in 0 .. Len(q) /\ ~Good(n)
    OBVIOUS
  <2> HIDE DEF Good
  <2>3. n \in 1 .. Len(q)
    BY <1>1, <1>5, <2>2
  <2>4. n - 1 \in 0 .. Len(q) /\ n - 1 \notin T
    <3> HIDE DEF T
    <3> QED
      BY <1>1, <2>1, <2>3
  <2> QED
    BY <1>6, <2>2, <2>3, <2>4
<1>8. Good(Len(q))
  <2> HIDE DEF Good
  <2> QED
    BY <1>1, <1>7
<1>9. Upto(Len(q)) = Listed(q) \ S
  BY <1>1 DEF Listed
<1> QED
  BY <1>3, <1>8, <1>9

-----------------------------------------------------------------------------
(* The sizes of the values of a storage.                                     *)
Sum(m) == SumFunctionOnSet(m.size, Keys)

(* What the storage always is.                                               *)
StorageOK(m) ==
    /\ m \in [order : Seq(Keys), size : [Keys -> Sizes \cup {0}], left : [Keys -> Times],
              approx : Nat]
    /\ Distinct(m.order)
    /\ \A k \in Keys : k \notin Listed(m.order) => m.size[k] = 0
    /\ Sum(m) <= m.approx

(* The sums of sizes are numbers, and of two parts.                          *)
LEMMA SumOfSizes ==
    ASSUME NEW f \in [Keys -> Sizes \cup {0}], NEW S \in SUBSET Keys
    PROVE  /\ SumFunctionOnSet(f, S) \in Nat /\ SumFunctionOnSet(f, Keys \ S) \in Nat
           /\ SumFunctionOnSet(f, Keys) = SumFunctionOnSet(f, S) + SumFunctionOnSet(f, Keys \ S)
<1>1. \A k \in Keys : f[k] \in Nat
  <2>1. Sizes \cup {0} \subseteq Nat
    BY InMemoryAssumption
  <2> QED
    BY <2>1
<1>2. IsFiniteSet(Keys) /\ IsFiniteSet(S) /\ IsFiniteSet(Keys \ S)
  BY InMemoryAssumption, FS_Subset, FS_Difference
<1>3. SumFunctionOnSet(f, Keys) = SumFunctionOnSet(f, S) + SumFunctionOnSet(f, Keys \ S)
  BY <1>1, <1>2, SumParts
<1>4. (\A k \in S : f[k] \in Nat) /\ (\A k \in Keys \ S : f[k] \in Nat)
  BY <1>1
<1>5. SumFunctionOnSet(f, S) \in Nat
  BY <1>2, <1>4, SumElement
<1>6. SumFunctionOnSet(f, Keys \ S) \in Nat
  BY <1>2, <1>4, SumElement
<1> QED
  BY <1>3, <1>5, <1>6

(* Without the keys of S, the sizes of the other keys are left.              *)
LEMMA WithoutOK ==
    ASSUME NEW m, StorageOK(m), NEW S \in SUBSET Keys
    PROVE  /\ StorageOK(Without(m, S))
           /\ Listed(Without(m, S).order) = Listed(m.order) \ S
           /\ Sum(m) = SumFunctionOnSet(m.size, S) + Sum(Without(m, S))
           /\ Without(m, S).approx = m.approx
<1> DEFINE w == Without(m, S)
<1>1. /\ m = [order |-> m.order, size |-> m.size, left |-> m.left, approx |-> m.approx]
      /\ m.order \in Seq(Keys) /\ m.size \in [Keys -> Sizes \cup {0}]
      /\ m.left \in [Keys -> Times] /\ m.approx \in Nat /\ Distinct(m.order)
  BY DEF StorageOK
<1>2. /\ w.order = Rest(m.order, S)
      /\ w.size = [k \in Keys |-> IF k \in S THEN 0 ELSE m.size[k]]
      /\ w.left = [k \in Keys |-> IF k \in S THEN Never ELSE m.left[k]]
      /\ w.approx = m.approx
      /\ w = [order |-> w.order, size |-> w.size, left |-> w.left, approx |-> w.approx]
  <2> DEFINE o == Rest(m.order, S)
             z == [k \in Keys |-> IF k \in S THEN 0 ELSE m.size[k]]
             l == [k \in Keys |-> IF k \in S THEN Never ELSE m.left[k]]
  <2>1. w = [m EXCEPT !.order = o, !.size = z, !.left = l]
    BY DEF Without
  <2>2. m = [order |-> m.order, size |-> m.size, left |-> m.left, approx |-> m.approx]
    BY <1>1
  <2> HIDE DEF o, z, l, w
  <2>3. w = [order |-> o, size |-> z, left |-> l, approx |-> m.approx]
    BY <2>1, <2>2
  <2> QED
    BY <2>3 DEF o, z, l
<1> HIDE DEF w
<1>3. w.order \in Seq(Keys) /\ Distinct(w.order) /\ Listed(w.order) = Listed(m.order) \ S
  BY <1>1, <1>2, RestIs
<1>4. w.size \in [Keys -> Sizes \cup {0}] /\ w.left \in [Keys -> Times]
  BY <1>1, <1>2, InMemoryAssumption DEF Times, Never, Expired
<1>5. SumFunctionOnSet(w.size, S) = 0
  <2>1. IsFiniteSet(S) /\ \A k \in S : w.size[k] = 0
    BY <1>2, InMemoryAssumption, FS_Subset
  <2> QED
    BY <2>1, SumZero
<1>6. SumFunctionOnSet(w.size, Keys \ S) = SumFunctionOnSet(m.size, Keys \ S)
  <2>1. IsFiniteSet(Keys \ S)
    BY InMemoryAssumption, FS_Difference
  <2>2. \A k \in Keys \ S : m.size[k] \in Nat /\ w.size[k] = m.size[k]
    BY <1>1, <1>2, InMemoryAssumption
  <2> QED
    BY <2>1, <2>2, SumSame
<1>7. Sum(m) = SumFunctionOnSet(m.size, S) + SumFunctionOnSet(m.size, Keys \ S)
  BY <1>1, SumOfSizes DEF Sum
<1>8. Sum(w) = SumFunctionOnSet(w.size, S) + SumFunctionOnSet(w.size, Keys \ S)
  BY <1>4, SumOfSizes DEF Sum
<1>9. /\ SumFunctionOnSet(m.size, S) \in Nat /\ SumFunctionOnSet(m.size, Keys \ S) \in Nat
  BY <1>1, SumOfSizes
<1>10. Sum(m) = SumFunctionOnSet(m.size, S) + Sum(w) /\ Sum(w) <= w.approx
  BY <1>1, <1>2, <1>5, <1>6, <1>7, <1>8, <1>9 DEF StorageOK
<1>11. \A k \in Keys : k \notin Listed(w.order) => w.size[k] = 0
  BY <1>2, <1>3 DEF StorageOK
<1>12. StorageOK(w)
  BY <1>1, <1>2, <1>3, <1>4, <1>10, <1>11 DEF StorageOK
<1> QED
  BY <1>2, <1>3, <1>10, <1>12 DEF w

(* A deletion leaves the others, and does not make the sizes more.           *)
LEMMA DeletedOK ==
    ASSUME NEW m, StorageOK(m), NEW S \in SUBSET Keys
    PROVE  /\ StorageOK(Deleted(m, S))
           /\ Listed(Deleted(m, S).order) = Listed(m.order) \ S
           /\ Sum(Deleted(m, S)) <= Sum(m)
<1> DEFINE w == Without(m, S)
           d == Deleted(m, S)
           gone == SumFunctionOnSet(m.size, S)
<1>1. /\ StorageOK(w) /\ Listed(w.order) = Listed(m.order) \ S
      /\ Sum(m) = gone + Sum(w) /\ w.approx = m.approx
  BY WithoutOK
<1>2. gone \in Nat /\ Sum(w) \in Nat /\ m.approx \in Nat /\ Sum(m) <= m.approx
  <2>1. /\ m.size \in [Keys -> Sizes \cup {0}] /\ m.approx \in Nat /\ Sum(m) <= m.approx
        /\ w.size \in [Keys -> Sizes \cup {0}]
    BY <1>1 DEF StorageOK
  <2> QED
    BY <2>1, SumOfSizes DEF Sum
<1>3. d = [w EXCEPT !.approx = IF m.approx - gone < 0 THEN 0 ELSE m.approx - gone]
  BY DEF Deleted
<1> HIDE DEF w, d, gone
<1>4. /\ w.order \in Seq(Keys) /\ w.size \in [Keys -> Sizes \cup {0}]
      /\ w.left \in [Keys -> Times]
      /\ w = [order |-> w.order, size |-> w.size, left |-> w.left, approx |-> w.approx]
  BY <1>1 DEF StorageOK
<1>5. d.order = w.order /\ d.size = w.size /\ d.left = w.left /\ d.approx = m.approx - gone
  BY <1>1, <1>2, <1>3, <1>4
<1>6. Sum(d) = Sum(w) /\ Sum(w) <= d.approx /\ d.approx \in Nat
  BY <1>1, <1>2, <1>5 DEF Sum
<1>7. d \in [order : Seq(Keys), size : [Keys -> Sizes \cup {0}], left : [Keys -> Times],
             approx : Nat]
  BY <1>2, <1>3, <1>4, <1>5, <1>6
<1>8. StorageOK(d)
  BY <1>1, <1>5, <1>6, <1>7 DEF StorageOK
<1> QED
  BY <1>1, <1>2, <1>5, <1>6, <1>8 DEF d, w

(* What is stored anew is counted in full, and what it replaces goes on to   *)
(* be counted.                                                               *)
LEMMA WithOK ==
    ASSUME NEW m, StorageOK(m), NEW k \in Keys, NEW s \in Sizes \cup {0}, NEW t \in Times
    PROVE  StorageOK(With(m, k, s, t)) /\ Listed(With(m, k, s, t).order) = Listed(m.order) \cup {k}
<1> DEFINE w == With(m, k, s, t)
<1>1. /\ m = [order |-> m.order, size |-> m.size, left |-> m.left, approx |-> m.approx]
      /\ m.order \in Seq(Keys) /\ m.size \in [Keys -> Sizes \cup {0}]
      /\ m.left \in [Keys -> Times] /\ m.approx \in Nat /\ Distinct(m.order)
  BY DEF StorageOK
<1>2. /\ w.order = IF k \in Listed(m.order) THEN m.order ELSE Append(m.order, k)
      /\ w.size = [m.size EXCEPT ![k] = s]
      /\ w.left = [m.left EXCEPT ![k] = t]
      /\ w.approx = m.approx + s
      /\ w = [order |-> w.order, size |-> w.size, left |-> w.left, approx |-> w.approx]
  <2> DEFINE o == IF k \in Listed(m.order) THEN m.order ELSE Append(m.order, k)
             z == [m.size EXCEPT ![k] = s]
             l == [m.left EXCEPT ![k] = t]
             a == m.approx + s
  <2>1. w = [m EXCEPT !.order = o, !.size = z, !.left = l, !.approx = a]
    BY DEF With, Listed
  <2>2. m = [order |-> m.order, size |-> m.size, left |-> m.left, approx |-> m.approx]
    BY <1>1
  <2> HIDE DEF o, z, l, a, w
  <2>3. w = [order |-> o, size |-> z, left |-> l, approx |-> a]
    BY <2>1, <2>2
  <2> QED
    BY <2>3 DEF o, z, l, a
<1> HIDE DEF w
<1>3. w.order \in Seq(Keys) /\ Distinct(w.order) /\ Listed(w.order) = Listed(m.order) \cup {k}
  <2>1. CASE k \in Listed(m.order)
    BY <1>1, <1>2, <2>1
  <2>2. CASE k \notin Listed(m.order)
    <3> DEFINE p == m.order
    <3>1. p \in Seq(Keys) /\ Distinct(p) /\ k \notin Listed(p) /\ w.order = Append(p, k)
      BY <1>1, <1>2, <2>2
    <3> HIDE DEF p
    <3> QED
      BY <3>1, AppendDistinct DEF p
  <2> QED
    BY <2>1, <2>2
<1>4. w.size \in [Keys -> Sizes \cup {0}] /\ w.left \in [Keys -> Times]
  BY <1>1, <1>2
<1>5. Sum(w) <= w.approx
  <2>1. /\ \A x \in Keys : m.size[x] \in Nat /\ w.size[x] \in Nat
        /\ w.size[k] = s /\ s \in Nat /\ \A x \in Keys \ {k} : w.size[x] = m.size[x]
    BY <1>1, <1>2, InMemoryAssumption
  <2>2. IsFiniteSet(Keys) /\ IsFiniteSet(Keys \ {k})
    BY InMemoryAssumption, FS_Difference
  <2>3. SumFunctionOnSet(w.size, Keys) = s + SumFunctionOnSet(w.size, Keys \ {k})
    BY <2>1, <2>2, SumElement
  <2>4. SumFunctionOnSet(m.size, Keys) = m.size[k] + SumFunctionOnSet(m.size, Keys \ {k})
    BY <2>1, <2>2, SumElement
  <2>5. SumFunctionOnSet(w.size, Keys \ {k}) = SumFunctionOnSet(m.size, Keys \ {k})
    BY <2>1, <2>2, SumSame
  <2>6. SumFunctionOnSet(m.size, Keys \ {k}) \in Nat
    BY <1>1, SumOfSizes
  <2>7. SumFunctionOnSet(m.size, Keys) <= m.approx
    BY DEF StorageOK, Sum
  <2> QED
    BY <1>1, <1>2, <2>1, <2>3, <2>4, <2>5, <2>6, <2>7 DEF Sum
<1>6. \A x \in Keys : x \notin Listed(w.order) => w.size[x] = 0
  BY <1>1, <1>2, <1>3 DEF StorageOK
<1>7. w.approx \in Nat
  BY <1>1, <1>2, InMemoryAssumption
<1>8. StorageOK(w)
  BY <1>2, <1>3, <1>4, <1>5, <1>6, <1>7 DEF StorageOK
<1> QED
  BY <1>3, <1>8 DEF w

(* Nothing is counted of an empty storage.                                   *)
LEMMA EmptyOK ==
    ASSUME NEW m, StorageOK(m), m.order = <<>> PROVE Sum(m) = 0
<1>1. Listed(m.order) = {}
  BY DEF Listed
<1>2. \A k \in Keys : m.size[k] = 0
  BY <1>1 DEF StorageOK
<1> QED
  BY <1>2, SumZero, InMemoryAssumption DEF Sum


-----------------------------------------------------------------------------
(* The types of what callers do and of what tokens gave.                     *)
TaskType == task \in [Callers -> Task] /\ given \in [Keys -> Nat]

(* The sizes are over MAX_SIZE in the loop of a set only.                    *)
Fits == (\A c \in Callers : task[c].op # "evict") => Total <= MaxSize

(* A token that is stored has given its data to no use since it was written. *)
StoredGaveNothing == \A k \in Keys : given[k] <= 1 /\ (k \in Stored => given[k] = 0)

StorageInv == StorageOK(Storage) /\ TaskType /\ Fits /\ StoredGaveNothing

(* A step that does not add to the storage.                                  *)
Calm ==
    /\ StorageOK(Storage)' /\ TaskType'
    /\ Stored' \subseteq Stored /\ Total' <= Total
    /\ UNCHANGED given
    /\ \A c \in Callers : task[c].op = "evict" => task'[c].op = "evict"

(* The names of the storage.                                                 *)
LEMMA StorageNames ==
    /\ Listed(Storage.order) = Stored /\ Sum(Storage) = Total
    /\ Storage.order = order /\ Storage.size = size
    /\ Storage.left = left /\ Storage.approx = approx
BY DEF Storage, Listed, Stored, Sum, Total

(* What a storage becomes is the storage.                                    *)
LEMMA BecomeIs ==
    ASSUME NEW m, StorageOK(m), Become(m)
    PROVE  StorageOK(Storage)' /\ Stored' = Listed(m.order) /\ Total' = Sum(m) /\ Storage' = m
<1>1. m = [order |-> m.order, size |-> m.size, left |-> m.left, approx |-> m.approx]
  BY DEF StorageOK
<1>2. Storage' = m
  BY <1>1 DEF Become, Storage
<1>3. Stored' = Listed(m.order) /\ Total' = Sum(m)
  BY DEF Become, Stored, Listed, Total, Sum
<1>4. StorageOK(Storage)' <=> StorageOK(Storage')
  BY DEF StorageOK, Sum, Distinct, Listed
<1> QED
  BY <1>2, <1>3, <1>4

(* The total of the sizes is a number.                                       *)
LEMMA SumType == ASSUME NEW m, StorageOK(m) PROVE Sum(m) \in Nat
<1>1. m.size \in [Keys -> Sizes \cup {0}]
  BY DEF StorageOK
<1> QED
  BY <1>1, SumOfSizes DEF Sum

(* A deletion does not add to the storage.                                   *)
LEMMA DeletedStep ==
    ASSUME StorageOK(Storage), NEW S \in SUBSET Keys, Become(Deleted(Storage, S))
    PROVE  StorageOK(Storage)' /\ Stored' = Stored \ S /\ Total' <= Total
BY DeletedOK, BecomeIs, StorageNames

(* Nor does what removes the entries whose time is over.                     *)
LEMMA WithoutStep ==
    ASSUME StorageOK(Storage), NEW S \in SUBSET Keys, Become(Without(Storage, S))
    PROVE  StorageOK(Storage)' /\ Stored' = Stored \ S /\ Total' <= Total
<1> DEFINE w == Without(Storage, S)
<1>1. /\ StorageOK(w) /\ Listed(w.order) = Stored \ S
      /\ Total = SumFunctionOnSet(Storage.size, S) + Sum(w)
  BY WithoutOK, StorageNames
<1>2. SumFunctionOnSet(Storage.size, S) \in Nat
  <2>1. Storage.size \in [Keys -> Sizes \cup {0}]
    BY DEF StorageOK
  <2> QED
    BY <2>1, SumOfSizes
<1>3. Sum(w) \in Nat
  BY <1>1, SumType
<1>4. StorageOK(Storage)' /\ Stored' = Listed(w.order) /\ Total' = Sum(w)
  BY <1>1, BecomeIs
<1> QED
  BY <1>1, <1>2, <1>3, <1>4

(* The keys that are stored are keys.                                        *)
LEMMA StoredKeys == ASSUME StorageOK(Storage) PROVE Stored \subseteq Keys
<1>1. order \in Seq(Keys)
  BY StorageNames DEF StorageOK
<1>2. \A i \in DOMAIN order : order[i] \in Keys
  BY <1>1, ElementOfSeq, LenProperties
<1> QED
  BY <1>2 DEF Stored

(* A task has its type.                                                      *)
LEMMA Tasks ==
    /\ Idle \in Task /\ Idle.op = "idle"
    /\ \A k \in Keys, s \in Sizes, t \in Times :
         StoreTask(k, s, t) \in Task /\ StoreTask(k, s, t).op = "store"
    /\ \A M \in SUBSET Keys : [Idle EXCEPT !.op = "matched", !.keys = M] \in Task
    /\ \A k \in Keys, t \in Times : [Idle EXCEPT !.op = "use", !.key = k, !.left = t] \in Task
    /\ \A n \in 0 .. RetryCount : [Idle EXCEPT !.op = "wait", !.retries = n] \in Task
<1>1. AnyKey \in Keys
  BY InMemoryAssumption DEF AnyKey
<1>2. Never \in Times /\ RetryCount \in Nat
  BY InMemoryAssumption DEF Never, Times, Expired
<1>3. Idle \in Task /\ Idle.op = "idle"
  BY <1>1, <1>2 DEF Idle, Task
<1> QED
  BY <1>1, <1>2, <1>3 DEF Idle, Task, StoreTask

(* A caller that goes on to do something else.                               *)
LEMMA GoIs ==
    ASSUME TaskType, NEW c \in Callers, NEW t \in Task, Go(c, t), UNCHANGED given
    PROVE  /\ TaskType'
           /\ task[c].op # "evict" =>
                \A d \in Callers : task[d].op = "evict" => task'[d].op = "evict"
BY DEF TaskType, Go

(* A step that does not add to the storage keeps the invariant.              *)
LEMMA CalmKeeps == ASSUME StorageInv, Calm PROVE StorageInv'
<1>1. Fits'
  <2>1. ASSUME \A c \in Callers : task'[c].op # "evict" PROVE Total' <= MaxSize
    <3>1. Total <= MaxSize
      BY <2>1 DEF StorageInv, Fits, Calm
    <3>2. Total \in Nat /\ Total' \in Nat /\ MaxSize \in Nat /\ Total' <= Total
      <4>1. Total \in Nat
        BY StorageNames, SumType DEF StorageInv
      <4>2. Total' \in Nat
        <5>1. StorageOK(Storage') /\ Sum(Storage') = Total'
          BY DEF Calm, StorageOK, Sum, Distinct, Listed, Storage, Total
        <5> QED
          BY <5>1, SumType
      <4> QED
        BY <4>1, <4>2, InMemoryAssumption DEF Calm
    <3> QED
      BY <3>1, <3>2
  <2> QED
    BY <2>1 DEF Fits
<1>2. StoredGaveNothing'
  BY DEF StorageInv, Calm, StoredGaveNothing
<1> QED
  BY <1>1, <1>2 DEF StorageInv, Calm

-----------------------------------------------------------------------------
(* The loop of set goes on, or ends with what fits.                          *)
LEMMA ShrinkStep ==
    ASSUME TaskType, NEW c \in Callers, NEW m, StorageOK(m), Shrink(c, m)
    PROVE  /\ StorageOK(Storage)' /\ task' \in [Callers -> Task] /\ Fits'
           /\ Stored' \subseteq Listed(m.order)
<1>1. CASE m.approx > MaxSize /\ m.order # <<>>
  <2>1. Become(Deleted(m, {Head(m.order)})) /\ Go(c, [task[c] EXCEPT !.op = "evict"])
    BY <1>1 DEF Shrink
  <2>2. Head(m.order) \in Keys
    <3>1. m.order \in Seq(Keys)
      BY DEF StorageOK
    <3> QED
      BY <1>1, <3>1, HeadTailProperties
  <2>3. StorageOK(Storage)' /\ Stored' \subseteq Listed(m.order)
    BY <2>1, <2>2, DeletedOK, BecomeIs
  <2>4. task' \in [Callers -> Task] /\ task'[c].op = "evict"
    BY <2>1 DEF TaskType, Task, Go
  <2> QED
    BY <2>3, <2>4 DEF Fits
<1>2. CASE ~(m.approx > MaxSize /\ m.order # <<>>)
  <2>1. Become(m) /\ Go(c, Idle)
    BY <1>2 DEF Shrink
  <2>2. StorageOK(Storage)' /\ Stored' = Listed(m.order) /\ Total' = Sum(m)
    BY <2>1, BecomeIs
  <2>3. task' \in [Callers -> Task]
    BY <2>1, Tasks DEF TaskType, Go
  <2>4. Sum(m) <= MaxSize
    <3>1. CASE m.order = <<>>
      BY <3>1, EmptyOK, InMemoryAssumption
    <3>2. CASE ~(m.approx > MaxSize)
      <4>1. Sum(m) \in Nat /\ Sum(m) <= m.approx /\ m.approx \in Nat
        BY SumType DEF StorageOK
      <4> QED
        BY <3>2, <4>1, InMemoryAssumption
    <3> QED
      BY <1>2, <3>1, <3>2
  <2> QED
    BY <2>2, <2>3, <2>4 DEF Fits
<1> QED
  BY <1>1, <1>2

(* The value is stored, and no use has got it.                               *)
LEMMA StoreKeeps == ASSUME StorageInv, NEW c \in Callers, Store(c) PROVE StorageInv'
<1> DEFINE m == With(Storage, task[c].key, task[c].size, task[c].left)
<1>1. /\ task[c].key \in Keys /\ task[c].left \in Times
      /\ task[c].size \in Sizes \cup {0}
  BY DEF StorageInv, TaskType, Task
<1>2. StorageOK(m) /\ Listed(m.order) = Stored \cup {task[c].key}
  <2>1. StorageOK(Storage) /\ Listed(Storage.order) = Stored
    BY StorageNames DEF StorageInv
  <2> HIDE DEF m
  <2>2. ASSUME NEW k \in Keys, NEW s \in Sizes \cup {0}, NEW t \in Times
        PROVE  /\ StorageOK(With(Storage, k, s, t))
               /\ Listed(With(Storage, k, s, t).order) = Stored \cup {k}
    BY <2>1, WithOK
  <2> QED
    BY <1>1, <2>2 DEF m
<1>3. Shrink(c, m)
  BY DEF Store
<1> HIDE DEF m
<1>4. /\ StorageOK(Storage)' /\ task' \in [Callers -> Task] /\ Fits'
      /\ Stored' \subseteq Stored \cup {task[c].key}
  BY <1>2, <1>3, ShrinkStep DEF StorageInv
<1>5. given' = [given EXCEPT ![task[c].key] = 0]
  BY DEF Store
<1>6. given' \in [Keys -> Nat]
  BY <1>1, <1>5 DEF StorageInv, TaskType
<1>7. StoredGaveNothing'
  BY <1>1, <1>4, <1>5 DEF StorageInv, TaskType, StoredGaveNothing
<1> QED
  BY <1>4, <1>6, <1>7 DEF StorageInv, TaskType

(* Another entry is deleted until the sizes fit.                             *)
LEMMA EvictKeeps == ASSUME StorageInv, NEW c \in Callers, Evict(c) PROVE StorageInv'
<1>1. StorageOK(Storage)' /\ task' \in [Callers -> Task] /\ Fits' /\ Stored' \subseteq Stored
  BY ShrinkStep, StorageNames DEF StorageInv, Evict
<1>2. given' = given
  BY DEF Evict
<1>3. StoredGaveNothing'
  BY <1>1, <1>2 DEF StorageInv, StoredGaveNothing
<1> QED
  BY <1>1, <1>2, <1>3 DEF StorageInv, TaskType

(* The use that removes the token gets its data.                             *)
LEMMA UseValidKeeps == ASSUME StorageInv, NEW c \in Callers, UseValid(c) PROVE StorageInv'
<1> DEFINE k == task[c].key
<1>1. k \in Keys
  BY DEF StorageInv, TaskType, Task
<1>2. /\ task[c].op = "use" /\ Become(Deleted(Storage, {k})) /\ Go(c, Idle)
      /\ given' = IF k \in Stored THEN [given EXCEPT ![k] = given[k] + 1] ELSE given
  BY DEF UseValid, Yields
<1> HIDE DEF k
<1>3. StorageOK(Storage)' /\ Stored' = Stored \ {k} /\ Total' <= Total
  BY <1>1, <1>2, DeletedStep DEF StorageInv
<1>4. /\ task' \in [Callers -> Task]
      /\ \A d \in Callers : task[d].op = "evict" => task'[d].op = "evict"
  BY <1>2, Tasks DEF StorageInv, TaskType, Go
<1>5. given' \in [Keys -> Nat]
  BY <1>1, <1>2 DEF StorageInv, TaskType
<1>6. Fits'
  <2>1. Total \in Nat /\ MaxSize \in Nat
    BY SumType, StorageNames, InMemoryAssumption DEF StorageInv
  <2>2. Total' \in Nat
    <3>1. StorageOK(Storage') /\ Sum(Storage') = Total'
      BY <1>3 DEF StorageOK, Sum, Distinct, Listed, Storage, Total
    <3> QED
      BY <3>1, SumType
  <2> QED
    BY <1>3, <1>4, <2>1, <2>2 DEF StorageInv, Fits
<1>7. StoredGaveNothing'
  BY <1>1, <1>2, <1>3 DEF StorageInv, TaskType, StoredGaveNothing
<1> QED
  BY <1>3, <1>4, <1>5, <1>6, <1>7 DEF StorageInv, TaskType

(* The calls that clean up, or delete.                                       *)
LEMMA CleanupCalm ==
    ASSUME StorageInv, Cleanup
    PROVE  StorageOK(Storage)' /\ Stored' \subseteq Stored /\ Total' <= Total
<1>1. Overdue \in SUBSET Keys
  BY StoredKeys DEF StorageInv, Overdue
<1> QED
  BY <1>1, DeletedStep DEF StorageInv, Cleanup

(* The storage is left alone.                                                *)
LEMMA StorageSame ==
    ASSUME StorageInv, UNCHANGED storage
    PROVE  StorageOK(Storage)' /\ Stored' \subseteq Stored /\ Total' <= Total
<1>1. Storage' = Storage /\ Stored' = Stored /\ Total' = Total
  BY DEF storage, Storage, Stored, Total
<1>2. StorageOK(Storage)' <=> StorageOK(Storage')
  BY DEF StorageOK, Sum, Distinct, Listed
<1>3. Total \in Nat
  BY SumType, StorageNames DEF StorageInv
<1> QED
  BY <1>1, <1>2, <1>3 DEF StorageInv

(* A step of a caller that does not delete in the loop of set.               *)
LEMMA GoCalm ==
    ASSUME StorageInv, NEW c \in Callers, task[c].op # "evict", NEW t \in Task, Go(c, t),
           UNCHANGED given, StorageOK(Storage)', Stored' \subseteq Stored, Total' <= Total
    PROVE  Calm
BY GoIs DEF StorageInv, Calm

(* The same of a step that is not part of a call.                            *)
LEMMA StayCalm ==
    ASSUME StorageInv, UNCHANGED <<task, given>>, StorageOK(Storage)', Stored' \subseteq Stored,
           Total' <= Total
    PROVE  Calm
BY DEF StorageInv, TaskType, Calm

(* An attempt to lock is of no concern to the storage.                       *)
LEMMA AttemptCalm ==
    ASSUME StorageInv, NEW c \in Callers, task[c].op # "evict", NEW n \in 0 .. RetryCount,
           Attempt(c, n), UNCHANGED <<storage, given>>
    PROVE  Calm
<1>1. StorageOK(Storage)' /\ Stored' \subseteq Stored /\ Total' <= Total
  BY StorageSame
<1>2. PICK t \in Task : Go(c, t)
  BY Tasks DEF Attempt
<1> QED
  BY <1>1, <1>2, GoCalm

(* A call starts.                                                            *)
LEMMA CallCalm == ASSUME StorageInv, NEW c \in Callers, Call(c) PROVE Calm
<1> USE DEF StorageInv
<1>1. CASE Set(c)
  <2>1. Ttl \in Times /\ Never \in Times
    BY InMemoryAssumption DEF Times, Never, Expired
  <2>2. PICK t \in Task : Go(c, t)
    BY <1>1, <2>1, Tasks DEF Set
  <2> QED
    BY <1>1, <2>2, CleanupCalm, GoCalm DEF Set
<1>2. CASE GetExpired(c)
  BY <1>2, CleanupCalm, StayCalm DEF GetExpired
<1>3. CASE Delete(c)
  <2>1. PICK k \in Stored : Become(Deleted(Storage, {k}))
    BY <1>3 DEF Delete
  <2>2. {k} \in SUBSET Keys
    BY StoredKeys
  <2>3. StorageOK(Storage)' /\ Stored' \subseteq Stored /\ Total' <= Total
    BY <2>1, <2>2, DeletedStep
  <2> QED
    BY <1>3, <2>3, StayCalm DEF Delete
<1>4. CASE ListKeys(c)
  <2>1. Overdue \in SUBSET Keys
    BY StoredKeys DEF Overdue
  <2>2. StorageOK(Storage)' /\ Stored' \subseteq Stored /\ Total' <= Total
    BY <1>4, <2>1, WithoutStep DEF ListKeys
  <2>3. PICK M \in SUBSET (Stored \ Overdue) :
          Go(c, IF M = {} THEN Idle ELSE [Idle EXCEPT !.op = "matched", !.keys = M])
    BY <1>4 DEF ListKeys
  <2>4. PICK t \in Task : Go(c, t)
    <3>1. M \in SUBSET Keys
      BY StoredKeys
    <3> QED
      BY <2>3, <3>1, Tasks
  <2> QED
    BY <1>4, <2>2, <2>4, GoCalm DEF ListKeys
<1>5. CASE Use(c)
  <2>1. PICK k \in Stored : left[k] \in 0 .. Ttl /\
          Go(c, [Idle EXCEPT !.op = "use", !.key = k, !.left = left[k]])
    BY <1>5 DEF Use
  <2>2. k \in Keys /\ left[k] \in Times
    BY <2>1, StoredKeys, InMemoryAssumption DEF Times, Never, Expired
  <2>3. PICK t \in Task : Go(c, t)
    BY <2>1, <2>2, Tasks
  <2> QED
    BY <1>5, <2>3, StorageSame, GoCalm DEF Use
<1>6. CASE Lock(c)
  <2>1. 0 \in 0 .. RetryCount
    BY InMemoryAssumption
  <2> QED
    BY <1>6, <2>1, AttemptCalm DEF Lock
<1>7. CASE Release(c)
  BY <1>7, StorageSame, StayCalm DEF Release
<1> QED
  BY <1>1, <1>2, <1>3, <1>4, <1>5, <1>6, <1>7 DEF Call

(* A call goes on.                                                           *)
LEMMA GoOnKeeps == ASSUME StorageInv, NEW c \in Callers, GoOn(c) PROVE StorageInv'
<1>0. /\ task[c].key \in Keys /\ task[c].left \in Times /\ task[c].keys \in SUBSET Keys
      /\ task[c].retries \in 0 .. RetryCount
  BY DEF StorageInv, TaskType, Task
<1>1. CASE DeleteMatching(c)
  <2>1. StorageOK(Storage)' /\ Stored' \subseteq Stored /\ Total' <= Total
    BY <1>0, <1>1, DeletedStep DEF DeleteMatching, StorageInv
  <2> QED
    BY <1>1, <2>1, Tasks, GoCalm, CalmKeeps DEF DeleteMatching
<1>2. CASE UseRevoked(c)
  <2>1. StorageOK(Storage)' /\ Stored' \subseteq Stored /\ Total' <= Total
    BY <1>0, <1>2, DeletedStep DEF UseRevoked, StorageInv
  <2> QED
    BY <1>2, <2>1, Tasks, GoCalm, CalmKeeps DEF UseRevoked
<1>3. CASE UseRejected(c)
  BY <1>3, StorageSame, Tasks, GoCalm, CalmKeeps DEF UseRejected
<1>4. CASE UseReplaced(c)
  <2>1. PICK t \in Task : Go(c, t)
    BY <1>0, <1>4, Tasks DEF UseReplaced
  <2> QED
    BY <1>4, <2>1, CleanupCalm, GoCalm, CalmKeeps DEF UseReplaced
<1>5. CASE Retry(c)
  <2>1. CASE NextRetry(c) < RetryCount
    <3>1. NextRetry(c) \in 0 .. RetryCount
      BY <1>0, <2>1, InMemoryAssumption DEF NextRetry
    <3> QED
      BY <1>5, <2>1, <3>1, AttemptCalm, CalmKeeps DEF Retry
  <2>2. CASE ~(NextRetry(c) < RetryCount)
    BY <1>5, <2>2, StorageSame, Tasks, GoCalm, CalmKeeps DEF Retry
  <2> QED
    BY <2>1, <2>2
<1> QED
  BY <1>1, <1>2, <1>3, <1>4, <1>5, StoreKeeps, EvictKeeps, UseValidKeeps DEF GoOn

(* The clock leaves what is stored alone.                                    *)
LEMMA TickCalm == ASSUME StorageInv, Tick PROVE Calm
<1>1. \A u \in Times : Later(u) \in Times
  BY InMemoryAssumption DEF Later, Times, Never, Expired
<1>2. /\ order' = order /\ size' = size /\ approx' = approx /\ given' = given
      /\ left' = [k \in Keys |-> Later(left[k])]
      /\ task' = [c \in Callers |-> IF task[c].op = "use"
                                    THEN [task[c] EXCEPT !.left = Later(task[c].left)]
                                    ELSE task[c]]
  BY DEF Tick
<1>3. Stored' = Stored /\ Total' = Total
  BY <1>2 DEF Stored, Total
<1>4. Total \in Nat
  BY SumType, StorageNames DEF StorageInv
<1>5. StorageOK(Storage)'
  <2>1. /\ order \in Seq(Keys) /\ size \in [Keys -> Sizes \cup {0}]
        /\ left \in [Keys -> Times] /\ approx \in Nat
        /\ Distinct(order) /\ Sum(Storage) <= approx
        /\ \A k \in Keys : k \notin Listed(order) => size[k] = 0
    BY StorageNames DEF StorageInv, StorageOK
  <2>2. left' \in [Keys -> Times]
    BY <1>1, <1>2, <2>1
  <2>3. Sum(Storage)' = Sum(Storage)
    BY <1>2 DEF Sum, Storage
  <2>4. /\ Storage'.order = order /\ Storage'.size = size /\ Storage'.approx = approx
        /\ Storage' = [order |-> order, size |-> size, left |-> left', approx |-> approx]
    BY <1>2 DEF Storage
  <2>5. StorageOK(Storage')
    <3>1. Sum(Storage') = Sum(Storage)
      BY <2>4, StorageNames DEF Sum
    <3> QED
      BY <2>1, <2>2, <2>4, <3>1 DEF StorageOK
  <2> QED
    BY <2>5 DEF StorageOK, Sum, Distinct, Listed
<1>6. TaskType' /\ \A c \in Callers : task'[c].op = task[c].op
  <2>1. ASSUME NEW c \in Callers
        PROVE  [task[c] EXCEPT !.left = Later(task[c].left)] \in Task
    <3>1. task[c] \in Task /\ Later(task[c].left) \in Times
      BY <1>1 DEF StorageInv, TaskType, Task
    <3> QED
      BY <3>1 DEF Task
  <2>2. task \in [Callers -> Task] /\ given' \in [Keys -> Nat]
    BY <1>2 DEF StorageInv, TaskType
  <2>3. task' \in [Callers -> Task]
    BY <1>2, <2>1, <2>2
  <2>4. ASSUME NEW c \in Callers PROVE task'[c].op = task[c].op
    <3>1. task[c] \in Task
      BY <2>2
    <3> QED
      BY <1>2, <3>1 DEF Task
  <2> QED
    BY <2>2, <2>3, <2>4 DEF TaskType
<1> QED
  BY <1>2, <1>3, <1>4, <1>5, <1>6 DEF Calm

(* The storage is empty at the start.                                        *)
LEMMA InitInv == Init => StorageInv
<1> SUFFICES ASSUME Init PROVE StorageInv
  OBVIOUS
<1>1. \A k \in Keys : size[k] = 0
  BY DEF Init
<1>2. Total = 0
  BY <1>1, SumZero, InMemoryAssumption DEF Total
<1>3. Never \in Times
  BY InMemoryAssumption DEF Times, Never, Expired
<1>4. Distinct(order) /\ order \in Seq(Keys) /\ Stored = {}
  BY DEF Init, Distinct, Stored
<1>5. size \in [Keys -> Sizes \cup {0}] /\ left \in [Keys -> Times] /\ approx = 0
  BY <1>3 DEF Init
<1>6. StorageOK(Storage)
  <2>1. Storage \in [order : Seq(Keys), size : [Keys -> Sizes \cup {0}],
                     left : [Keys -> Times], approx : Nat]
    BY <1>4, <1>5 DEF Storage
  <2> QED
    BY <1>1, <1>2, <1>4, <1>5, <2>1, StorageNames DEF StorageOK
<1>7. TaskType /\ StoredGaveNothing
  <2>1. task = [c \in Callers |-> Idle] /\ given = [k \in Keys |-> 0]
    BY DEF Init
  <2>2. task \in [Callers -> Task]
    BY <2>1, Tasks
  <2> QED
    BY <2>1, <2>2 DEF TaskType, StoredGaveNothing
<1>8. Fits
  BY <1>2, InMemoryAssumption DEF Fits
<1> QED
  BY <1>6, <1>7, <1>8 DEF StorageInv

(* A step that changes nothing.                                              *)
LEMMA StutterCalm == ASSUME StorageInv, UNCHANGED vars PROVE Calm
<1>1. UNCHANGED storage /\ UNCHANGED <<task, given>>
  BY DEF vars
<1> QED
  BY <1>1, StorageSame, StayCalm

(* The invariant of the storage, for every step.                             *)
LEMMA StorageInvariant == Spec => []StorageInv
<1>1. ASSUME StorageInv, [Next]_vars PROVE StorageInv'
  <2>1. CASE Tick
    BY <1>1, <2>1, TickCalm, CalmKeeps
  <2>2. ASSUME NEW c \in Callers, Call(c) PROVE StorageInv'
    BY <1>1, <2>2, CallCalm, CalmKeeps
  <2>3. ASSUME NEW c \in Callers, GoOn(c) PROVE StorageInv'
    BY <1>1, <2>3, GoOnKeeps
  <2>4. CASE UNCHANGED vars
    BY <1>1, <2>4, StutterCalm, CalmKeeps
  <2> QED
    BY <1>1, <2>1, <2>2, <2>3, <2>4 DEF Next
<1> QED
  BY <1>1, InitInv, PTL DEF Spec

-----------------------------------------------------------------------------
(* The types of the storage, of the lock and of what callers do; a key is in *)
(* the order of insertion once, which the loop of set counts on.             *)
THEOREM TypeCorrect == Spec => []TypeOK
<1>1. StorageInv /\ LockInv => TypeOK
  <2> SUFFICES ASSUME StorageInv, LockInv PROVE TypeOK
    OBVIOUS
  <2>1. /\ order \in Seq(Keys) /\ size \in [Keys -> Sizes \cup {0}]
        /\ left \in [Keys -> Times] /\ approx \in Nat /\ Distinct(order)
    BY StorageNames DEF StorageInv, StorageOK
  <2> QED
    BY <2>1 DEF StorageInv, TaskType, LockInv, LockType, TypeOK, Distinct
<1> QED
  BY <1>1, StorageInvariant, LockInvariant, PTL

(* The approximate size of InMemory.set is never below the sizes of the      *)
(* values, and when no set is in its loop they fit in MAX_SIZE, for any keys *)
(* and sizes and every order of replacements, deletions and expirations.     *)
THEOREM FitsMaxSize == Spec => []WithinMaxSize
<1>1. StorageInv => WithinMaxSize
  BY StorageNames DEF StorageInv, StorageOK, Fits, WithinMaxSize
<1> QED
  BY <1>1, StorageInvariant, PTL

(* Of the uses of a one-time token, however many have read it, one gets its  *)
(* data, until the token is written again.                                   *)
THEOREM OneUse == Spec => []OneUsePerWrite
<1>1. StorageInv => OneUsePerWrite
  BY DEF StorageInv, StoredGaveNothing, OneUsePerWrite
<1> QED
  BY <1>1, StorageInvariant, PTL
=============================================================================
