------------------------- MODULE EvictionIndexProofs -------------------------
(*****************************************************************************)
(* Proofs about EvictionIndex for any finite set of keys and every strategy: *)
(* the links always spell a list of distinct keys (Spells), from the head    *)
(* and from the tail, and each operation changes that list as its name says. *)
(*                                                                           *)
(* A link that is off by one breaks the list only some operations later, at  *)
(* the key next to it: the lemmas give all the links an operation leaves.    *)
(*                                                                           *)
(* And of the heap of the LFU index, for any keys and metadata: a loop that  *)
(* restores it keeps its order but at the place where it is (Rising,         *)
(* Sinking), and after each key looked at the heap holds the lowest scores   *)
(* so far (Selected).                                                        *)
(*****************************************************************************)
EXTENDS EvictionIndex, SequenceTheorems, FiniteSetTheorems, LeastElement

(* The keys of a list.                                                       *)
Listed(q) == {q[i] : i \in 1 .. Len(q)}

(* A list without repetitions.                                               *)
Distinct(q) == \A i, j \in 1 .. Len(q) : q[i] = q[j] => i = j

(* The link to a place of the list: no key, outside of it.                   *)
At(q, i) == IF i \in 1 .. Len(q) THEN q[i] ELSE NoKey

(* The links of an index, from either end, spell the keys of q. *)
Spells(l, q) ==
    /\ l \in Index
    /\ q \in Seq(Keys) /\ Distinct(q)
    /\ l.nodes = Listed(q)
    /\ l.head = At(q, 1) /\ l.tail = At(q, Len(q))
    /\ \A i \in 1 .. Len(q) : l.next[q[i]] = At(q, i + 1) /\ l.prev[q[i]] = At(q, i - 1)

(* The list without the key at j.                                            *)
Cut(q, j) == [i \in 1 .. (Len(q) - 1) |-> IF i < j THEN q[i] ELSE q[i + 1]]

-----------------------------------------------------------------------------
(* The index starts with no keys.                                            *)
LEMMA SpellsEmpty == Spells(EmptyIndex, <<>>)
BY EvictionIndexAssumption DEF Spells, EmptyIndex, Index, Links, Distinct, Listed, At

(* A key that is appended to the links comes last.                           *)
LEMMA AppendSpells ==
    ASSUME NEW l, NEW q, Spells(l, q), NEW k \in Keys, k \notin l.nodes
    PROVE  Spells(AppendToTail(l, k), Append(q, k))
<1> DEFINE m == AppendToTail(l, k)
           r == Append(q, k)
<1>1. /\ Len(q) \in Nat /\ q \in Seq(Keys)
      /\ r \in Seq(Keys) /\ Len(r) = Len(q) + 1 /\ r[Len(q) + 1] = k
      /\ \A i \in 1 .. Len(q) : r[i] = q[i] /\ q[i] \in Keys
  BY AppendProperties, LenProperties, ElementOfSeq DEF Spells
<1>2. \A i \in 1 .. Len(q) : q[i] # k /\ q[i] # NoKey
  BY <1>1, EvictionIndexAssumption DEF Spells, Listed
<1>3. m \in Index
  BY DEF AppendToTail, Index, Links, Spells
<1>4. Distinct(r)
  BY <1>1, <1>2 DEF Spells, Distinct
<1>5. m.nodes = Listed(r)
  BY <1>1 DEF Spells, AppendToTail, Listed
<1>6. m.head = At(r, 1) /\ m.tail = At(r, Len(r))
  BY <1>1, <1>2, EvictionIndexAssumption DEF Spells, AppendToTail, At
<1>7. ASSUME NEW i \in 1 .. Len(r)
      PROVE  m.next[r[i]] = At(r, i + 1) /\ m.prev[r[i]] = At(r, i - 1)
  <2>1. CASE i = Len(q) + 1
    BY <1>1, <1>2, <2>1 DEF Spells, AppendToTail, At, Index, Links
  <2>2. CASE i \in 1 .. Len(q)
    <3>1. m.prev[r[i]] = At(r, i - 1)
      BY <1>1, <1>2, <2>2 DEF Spells, AppendToTail, At, Index, Links
    <3>2. CASE i = Len(q)
      BY <1>1, <1>2, <2>2, <3>1, <3>2 DEF Spells, AppendToTail, At, Index, Links
    <3>3. CASE i < Len(q)
      <4>1. q[i] # l.tail
        BY <1>1, <2>2, <3>3 DEF Spells, At, Distinct
      <4> QED
        BY <1>1, <1>2, <2>2, <3>1, <3>3, <4>1 DEF Spells, AppendToTail, At, Index, Links
    <3> QED
      BY <1>1, <2>2, <3>2, <3>3
  <2> QED
    BY <1>1, <2>1, <2>2
<1> QED
  BY <1>1, <1>3, <1>4, <1>5, <1>6, <1>7 DEF Spells

(* A key that is detached from the links, wherever it is, leaves the others  *)
(* in their order.                                                           *)
LEMMA CutSpells ==
    ASSUME NEW l, NEW q, Spells(l, q), NEW j \in 1 .. Len(q)
    PROVE  Spells(Detach(l, q[j]), Cut(q, j))
<1> DEFINE m == Detach(l, q[j])
           r == Cut(q, j)
<1>1. /\ Len(q) \in Nat /\ q \in Seq(Keys)
      /\ \A i \in 1 .. Len(q) : q[i] \in Keys
  BY LenProperties, ElementOfSeq DEF Spells
<1>2. r \in Seq(Keys) /\ Len(r) = Len(q) - 1
  BY <1>1 DEF Cut
<1>3. \A i \in 1 .. Len(r) : r[i] = IF i < j THEN q[i] ELSE q[i + 1]
  BY <1>2 DEF Cut
<1> HIDE DEF r
<1>4. \A i, h \in 1 .. Len(q) : q[i] = q[h] => i = h
  BY DEF Spells, Distinct
<1>5. l.prev[q[j]] = At(q, j - 1) /\ l.next[q[j]] = At(q, j + 1)
  BY DEF Spells
<1>6. m \in Index
  BY <1>1, <1>5 DEF Detach, Index, Links, Spells, At
<1>7. Distinct(r)
  BY <1>1, <1>2, <1>3, <1>4 DEF Distinct
<1>8. m.nodes = Listed(r)
  <2>1. ASSUME NEW i \in 1 .. Len(q), i # j PROVE q[i] \in Listed(r)
    <3>1. CASE i < j
      BY <1>1, <1>2, <1>3, <3>1 DEF Listed
    <3>2. CASE i > j
      <4>1. i - 1 \in 1 .. Len(r) /\ r[i - 1] = q[i]
        BY <1>1, <1>2, <1>3, <3>2
      <4> QED
        BY <4>1 DEF Listed
    <3> QED
      BY <2>1, <3>1, <3>2
  <2>2. ASSUME NEW i \in 1 .. Len(r) PROVE r[i] \in Listed(q) /\ r[i] # q[j]
    BY <1>1, <1>2, <1>3, <1>4 DEF Listed
  <2>3. m.nodes = Listed(q) \ {q[j]}
    BY DEF Detach, Spells
  <2>4. \A k \in Listed(q) : k # q[j] => k \in Listed(r)
    BY <2>1 DEF Listed
  <2>5. \A k \in Listed(r) : k \in Listed(q) /\ k # q[j]
    BY <2>2 DEF Listed
  <2> QED
    BY <2>3, <2>4, <2>5
<1>9. m.head = At(r, 1) /\ m.tail = At(r, Len(r))
  <2>1. l.head = At(q, 1) /\ l.tail = At(q, Len(q))
    BY DEF Spells
  <2>2. /\ m.head = IF l.prev[q[j]] = NoKey THEN l.next[q[j]] ELSE l.head
        /\ m.tail = IF l.next[q[j]] = NoKey THEN l.prev[q[j]] ELSE l.tail
    BY DEF Detach
  <2>3. m.head = At(r, 1)
    <3>1. CASE j = 1
      BY <1>1, <1>2, <1>3, <1>5, <2>2, <3>1 DEF At
    <3>2. CASE j # 1
      <4>1. l.prev[q[j]] # NoKey
        BY <1>1, <1>5, <3>2, EvictionIndexAssumption DEF At
      <4> QED
        BY <1>1, <1>2, <1>3, <2>1, <2>2, <3>2, <4>1 DEF At
    <3> QED
      BY <3>1, <3>2
  <2>4. m.tail = At(r, Len(r))
    <3>1. CASE j = Len(q)
      BY <1>1, <1>2, <1>3, <1>5, <2>2, <3>1 DEF At
    <3>2. CASE j # Len(q)
      <4>1. l.next[q[j]] # NoKey
        BY <1>1, <1>5, <3>2, EvictionIndexAssumption DEF At
      <4> QED
        BY <1>1, <1>2, <1>3, <2>1, <2>2, <3>2, <4>1 DEF At
    <3> QED
      BY <3>1, <3>2
  <2> QED
    BY <2>3, <2>4
<1>10. ASSUME NEW i \in 1 .. Len(r)
       PROVE  m.next[r[i]] = At(r, i + 1) /\ m.prev[r[i]] = At(r, i - 1)
  <2>1. r[i] \in Keys /\ r[i] # q[j]
    BY <1>1, <1>2, <1>3, <1>4
  <2>2. /\ m.next[r[i]] = IF r[i] = l.prev[q[j]] THEN l.next[q[j]] ELSE l.next[r[i]]
        /\ m.prev[r[i]] = IF r[i] = l.next[q[j]] THEN l.prev[q[j]] ELSE l.prev[r[i]]
    BY <2>1 DEF Detach
  <2>3. \A h \in 1 .. Len(q) : l.next[q[h]] = At(q, h + 1) /\ l.prev[q[h]] = At(q, h - 1)
    BY DEF Spells
  <2>4. CASE i < j
    <3>1. r[i] = q[i] /\ l.next[q[i]] = At(q, i + 1) /\ l.prev[q[i]] = At(q, i - 1)
      <4>1. i \in 1 .. Len(q) /\ r[i] = q[i]
        BY <1>1, <1>2, <1>3, <2>4
      <4> QED
        BY <2>3, <4>1
    <3>2. r[i] # l.next[q[j]] /\ (r[i] = l.prev[q[j]] <=> i = j - 1)
      BY <1>1, <1>2, <1>4, <1>5, <2>1, <2>4, <3>1, EvictionIndexAssumption DEF At
    <3>3. m.prev[r[i]] = At(r, i - 1)
      BY <1>1, <1>2, <1>3, <2>2, <2>4, <3>1, <3>2 DEF At
    <3>4. CASE i = j - 1
      BY <1>1, <1>2, <1>3, <1>5, <2>2, <2>4, <3>2, <3>3, <3>4 DEF At
    <3>5. CASE i # j - 1
      BY <1>1, <1>2, <1>3, <2>2, <2>4, <3>1, <3>2, <3>3, <3>5 DEF At
    <3> QED
      BY <3>4, <3>5
  <2>5. CASE i >= j
    <3>1. r[i] = q[i + 1] /\ l.next[q[i + 1]] = At(q, i + 2) /\ l.prev[q[i + 1]] = At(q, i)
      <4>1. i + 1 \in 1 .. Len(q) /\ (i + 1) + 1 = i + 2 /\ (i + 1) - 1 = i
        BY <1>1, <1>2, <2>5
      <4>2. r[i] = q[i + 1]
        BY <1>1, <1>2, <1>3, <2>5
      <4> QED
        BY <2>3, <4>1, <4>2
    <3>2. r[i] # l.prev[q[j]] /\ (r[i] = l.next[q[j]] <=> i = j)
      BY <1>1, <1>2, <1>4, <1>5, <2>1, <2>5, <3>1, EvictionIndexAssumption DEF At
    <3> QED
      BY <1>1, <1>2, <1>3, <1>5, <2>2, <2>5, <3>1, <3>2 DEF At
  <2> QED
    BY <1>2, <2>4, <2>5
<1> QED
  BY <1>2, <1>6, <1>7, <1>8, <1>9, <1>10 DEF Spells, r

-----------------------------------------------------------------------------
(* The walk from the head. *)

(* The first n keys of a list, or all of them.                               *)
Prefix(q, n) == [i \in 1 .. (IF n < Len(q) THEN n ELSE Len(q)) |-> q[i]]

(* What FromHead defines the keys found in the first steps of its walk to    *)
(* be.                                                                       *)
IsWalk(found, l, n) ==
    found = [i \in 0 .. n |->
        IF i = 0 THEN <<>>
        ELSE LET keys == found[i - 1]
                 at   == IF keys = <<>> THEN l.head ELSE l.next[keys[Len(keys)]]
             IN  IF at = NoKey THEN keys ELSE Append(keys, at)]

(* A step of the walk finds the next key of the list.                        *)
LEMMA WalkExtends ==
    ASSUME NEW l, NEW q, Spells(l, q), NEW n \in Nat \ {0}
    PROVE  Prefix(q, n) =
             LET keys == Prefix(q, n - 1)
                 at   == IF keys = <<>> THEN l.head ELSE l.next[keys[Len(keys)]]
             IN  IF at = NoKey THEN keys ELSE Append(keys, at)
<1> DEFINE keys == Prefix(q, n - 1)
           at   == IF keys = <<>> THEN l.head ELSE l.next[keys[Len(keys)]]
<1>1. /\ Len(q) \in Nat /\ q \in Seq(Keys)
      /\ \A i \in 1 .. Len(q) : q[i] \in Keys
  BY LenProperties, ElementOfSeq DEF Spells
<1>2. /\ keys \in Seq(Keys) /\ Len(keys) = (IF n - 1 < Len(q) THEN n - 1 ELSE Len(q))
      /\ \A i \in 1 .. Len(keys) : keys[i] = q[i]
  BY <1>1 DEF Prefix
<1>3. at = At(q, Len(keys) + 1)
  <2>1. CASE Len(keys) = 0
    BY <1>1, <1>2, <2>1, EmptySeq DEF Spells
  <2>2. CASE Len(keys) # 0
    <3>1. keys # <<>> /\ Len(keys) \in 1 .. Len(q) /\ keys[Len(keys)] = q[Len(keys)]
      BY <1>1, <1>2, <2>2
    <3> QED
      BY <3>1 DEF Spells
  <2> QED
    BY <2>1, <2>2
<1>4. CASE n - 1 < Len(q)
  <2>1. at = q[n] /\ at \in Keys /\ Len(keys) = n - 1
    BY <1>1, <1>2, <1>3, <1>4 DEF At
  <2>2. /\ Prefix(q, n) \in Seq(Keys) /\ Len(Prefix(q, n)) = n
        /\ \A i \in 1 .. n : Prefix(q, n)[i] = q[i]
    BY <1>1, <1>4 DEF Prefix
  <2>3. /\ Append(keys, at) \in Seq(Keys) /\ Len(Append(keys, at)) = n
        /\ \A i \in 1 .. n : Append(keys, at)[i] = q[i]
    BY <1>2, <1>4, <2>1, AppendProperties
  <2>4. Prefix(q, n) = Append(keys, at)
    BY <2>2, <2>3, SeqEqual
  <2> QED
    BY <2>1, <2>4, EvictionIndexAssumption
<1>5. CASE n - 1 >= Len(q)
  <2>1. at = NoKey
    BY <1>1, <1>2, <1>3, <1>5 DEF At
  <2>2. Prefix(q, n) = keys
    BY <1>1, <1>5 DEF Prefix
  <2> QED
    BY <2>1, <2>2
<1> QED
  BY <1>1, <1>4, <1>5

(* The walk from the head finds the first keys of the list the links spell:  *)
(* by the least number of steps for which it does not.                       *)
LEMMA WalkIs ==
    ASSUME NEW l, NEW q, Spells(l, q), NEW n \in Nat
    PROVE  FromHead(l, n) = Prefix(q, n)
<1> DEFINE g == [i \in 0 .. n |-> Prefix(q, i)]
           found == CHOOSE f : IsWalk(f, l, n)
<1>0. Prefix(q, 0) = <<>>
  <2>1. Len(q) \in Nat
    BY LenProperties DEF Spells
  <2> QED
    BY <2>1 DEF Prefix
<1>1. IsWalk(g, l, n)
  <2>1. ASSUME NEW i \in 1 .. n
        PROVE  Prefix(q, i) =
                 LET keys == g[i - 1]
                     at   == IF keys = <<>> THEN l.head ELSE l.next[keys[Len(keys)]]
                 IN  IF at = NoKey THEN keys ELSE Append(keys, at)
    <3>1. g[i - 1] = Prefix(q, i - 1)
      OBVIOUS
    <3> QED
      BY <3>1, WalkExtends
  <2> QED
    BY <1>0, <2>1 DEF IsWalk
<1>2. IsWalk(found, l, n)
  BY <1>1
<1>3. FromHead(l, n) = found[n]
  BY DEF FromHead, IsWalk
<1> HIDE DEF found
<1> DEFINE T == {i \in 0 .. n : found[i] # Prefix(q, i)}
<1>4. ASSUME T # {} PROVE FALSE
  <2>0. T \in SUBSET Nat /\ T # {}
    BY <1>4
  <2>1. PICK i \in T : \A m \in T : i <= m
    <3> HIDE DEF T
    <3> QED
      BY <2>0, LeastOf
  <2>2. i \in 0 .. n /\ found[i] # Prefix(q, i)
    OBVIOUS
  <2>3. i # 0 /\ i - 1 \in 0 .. n
    BY <1>0, <1>2, <2>2 DEF IsWalk
  <2>4. found[i - 1] = Prefix(q, i - 1)
    BY <2>1, <2>3
  <2>5. found[i] = LET keys == found[i - 1]
                       at   == IF keys = <<>> THEN l.head ELSE l.next[keys[Len(keys)]]
                   IN  IF at = NoKey THEN keys ELSE Append(keys, at)
    BY <1>2, <2>2, <2>3 DEF IsWalk
  <2> QED
    BY <2>2, <2>3, <2>4, <2>5, WalkExtends
<1> QED
  BY <1>3, <1>4

(* As many steps as the list is long find all of it.                         *)
LEMMA PrefixFull ==
    ASSUME NEW q \in Seq(Keys), NEW n \in Nat, Len(q) <= n PROVE Prefix(q, n) = q
<1>1. Len(q) \in Nat /\ \A i \in 1 .. Len(q) : q[i] \in Keys
  BY LenProperties, ElementOfSeq
<1>2. /\ Prefix(q, n) \in Seq(Keys) /\ Len(Prefix(q, n)) = Len(q)
      /\ \A i \in 1 .. Len(q) : Prefix(q, n)[i] = q[i]
  BY <1>1 DEF Prefix
<1> QED
  BY <1>2, SeqEqual

(* As many keys as there are, and no more, can be in an index. *)
LEMMA LengthOf ==
    ASSUME NEW q \in Seq(Keys), Distinct(q)
    PROVE  /\ IsFiniteSet(Listed(q)) /\ Cardinality(Listed(q)) = Len(q)
           /\ Len(q) \in Nat /\ Cardinality(Keys) \in Nat /\ Len(q) <= Cardinality(Keys)
<1>1. /\ Len(q) \in Nat
      /\ \A i \in 1 .. Len(q) : q[i] \in Keys
      /\ q \in [1 .. Len(q) -> Keys]
  BY LenProperties, ElementOfSeq
<1>2. q \in Surjection(1 .. Len(q), Listed(q)) /\ q \in Injection(1 .. Len(q), Listed(q))
  BY <1>1 DEF Surjection, Injection, IsInjective, Listed, Distinct
<1>3. IsFiniteSet(1 .. Len(q)) /\ Cardinality(1 .. Len(q)) = Len(q)
  <2>1. 1 \in Int /\ Len(q) \in Int
    BY <1>1
  <2>2. IsFiniteSet(1 .. Len(q)) /\ Cardinality(1 .. Len(q)) = IF 1 > Len(q) THEN 0 ELSE Len(q) - 1 + 1
    BY <2>1, FS_Interval
  <2> QED
    BY <1>1, <2>2
<1>4. IsFiniteSet(Listed(q)) /\ Cardinality(Listed(q)) = Len(q)
  BY <1>2, <1>3, FS_Surjection
<1>5. Listed(q) \in SUBSET Keys
  BY <1>1 DEF Listed
<1> QED
  BY <1>1, <1>4, <1>5, FS_Subset, FS_CardinalityType, EvictionIndexAssumption

-----------------------------------------------------------------------------
(* What the operations do to the keys an index spells. *)

(* The keys of r are keys of q, in the same order. *)
Thins(q, r) ==
    /\ Listed(r) \subseteq Listed(q)
    /\ \A i, j \in 1 .. Len(r) : i < j =>
          \E m, n \in 1 .. Len(q) : m < n /\ q[m] = r[i] /\ q[n] = r[j]

(* A list has its own keys in its own order.                                 *)
LEMMA ThinsItself == ASSUME NEW q PROVE Thins(q, q)
BY DEF Thins

(* Keys taken out of a list twice leave it in order.                         *)
LEMMA ThinsTransitive ==
    ASSUME NEW q, NEW r, NEW s, Thins(q, r), Thins(r, s) PROVE Thins(q, s)
<1> SUFFICES ASSUME NEW i \in 1 .. Len(s), NEW j \in 1 .. Len(s), i < j
             PROVE  \E m, n \in 1 .. Len(q) : m < n /\ q[m] = s[i] /\ q[n] = s[j]
  BY DEF Thins
<1>1. PICK a, b \in 1 .. Len(r) : a < b /\ r[a] = s[i] /\ r[b] = s[j]
  BY DEF Thins
<1> QED
  BY <1>1 DEF Thins

(* A cut takes out one key.                                                  *)
LEMMA CutThins ==
    ASSUME NEW q \in Seq(Keys), NEW j \in 1 .. Len(q), Distinct(q)
    PROVE  Thins(q, Cut(q, j)) /\ Listed(Cut(q, j)) = Listed(q) \ {q[j]}
<1> DEFINE r == Cut(q, j)
<1>1. Len(q) \in Nat /\ \A i \in 1 .. Len(q) : q[i] \in Keys
  BY LenProperties, ElementOfSeq
<1>2. r \in Seq(Keys) /\ Len(r) = Len(q) - 1
      /\ \A i \in 1 .. Len(r) : r[i] = IF i < j THEN q[i] ELSE q[i + 1]
  BY <1>1 DEF Cut
<1> HIDE DEF r
<1>3. ASSUME NEW i \in 1 .. Len(r)
      PROVE  \E m \in 1 .. Len(q) : m # j /\ q[m] = r[i]
  <2>1. CASE i < j
    BY <1>1, <1>2, <2>1
  <2>2. CASE i >= j
    <3>1. i + 1 \in 1 .. Len(q) /\ i + 1 # j /\ q[i + 1] = r[i]
      BY <1>1, <1>2, <2>2
    <3> QED
      BY <3>1
  <2> QED
    BY <1>1, <1>2, <2>1, <2>2
<1>4. ASSUME NEW i \in 1 .. Len(q), i # j PROVE \E m \in 1 .. Len(r) : r[m] = q[i]
  <2>1. CASE i < j
    BY <1>1, <1>2, <2>1
  <2>2. CASE i > j
    <3>1. i - 1 \in 1 .. Len(r) /\ r[i - 1] = q[i]
      BY <1>1, <1>2, <2>2
    <3> QED
      BY <3>1
  <2> QED
    BY <1>4, <2>1, <2>2
<1>5. Listed(r) = Listed(q) \ {q[j]}
  <2>1. ASSUME NEW i \in 1 .. Len(q), i # j PROVE q[i] \in Listed(r)
    BY <1>4, <2>1 DEF Listed
  <2>2. ASSUME NEW i \in 1 .. Len(r) PROVE r[i] \in Listed(q) /\ r[i] # q[j]
    <3>1. PICK m \in 1 .. Len(q) : m # j /\ q[m] = r[i]
      BY <1>3
    <3> QED
      BY <3>1 DEF Listed, Distinct
  <2> QED
    BY <2>1, <2>2 DEF Listed
<1>6. ASSUME NEW i \in 1 .. Len(r), NEW h \in 1 .. Len(r), i < h
      PROVE  \E m, n \in 1 .. Len(q) : m < n /\ q[m] = r[i] /\ q[n] = r[h]
  <2> DEFINE a == IF i < j THEN i ELSE i + 1
             b == IF h < j THEN h ELSE h + 1
  <2>1. a \in 1 .. Len(q) /\ b \in 1 .. Len(q) /\ a < b /\ q[a] = r[i] /\ q[b] = r[h]
    BY <1>1, <1>2, <1>6
  <2> QED
    BY <2>1
<1> QED
  BY <1>5, <1>6 DEF Thins, r

(* The removal of a key takes it out of the list, if it is there.            *)
LEMMA RemoveSpells ==
    ASSUME NEW l, NEW q, Spells(l, q), NEW k \in Keys
    PROVE  \E r : /\ Spells(Remove(l, k), r) /\ Thins(q, r)
                  /\ Listed(r) = Listed(q) \ {k}
<1>1. CASE k \notin l.nodes
  <2>1. Remove(l, k) = l /\ Listed(q) = Listed(q) \ {k}
    BY <1>1 DEF Remove, Spells
  <2> QED
    BY <2>1, ThinsItself
<1>2. CASE k \in l.nodes
  <2>1. PICK j \in 1 .. Len(q) : k = q[j]
    BY <1>2 DEF Spells, Listed
  <2>2. Remove(l, k) = Detach(l, q[j])
    BY <1>2, <2>1 DEF Remove
  <2>3. Spells(Remove(l, k), Cut(q, j))
    BY <2>2, CutSpells
  <2>4. Thins(q, Cut(q, j)) /\ Listed(Cut(q, j)) = Listed(q) \ {k}
    BY <2>1, CutThins DEF Spells
  <2> QED
    BY <2>3, <2>4
<1> QED
  BY <1>1, <1>2

(* RemoveAll takes the keys of S one after the other. *)
IsDrop(drop, l, S, order) ==
    drop = [i \in 0 .. Len(order) |->
        IF i = 0 THEN l
        ELSE LET rest == drop[i - 1]
             IN  IF order[i] \in S THEN Remove(rest, order[i]) ELSE rest]

(* There is such a function up to any place in the order. *)
LEMMA DropExists ==
    ASSUME NEW l, NEW S, NEW order \in Seq(Keys) PROVE \E drop : IsDrop(drop, l, S, order)
<1> DEFINE D(f, n) == f = [i \in 0 .. n |->
               IF i = 0 THEN l
               ELSE IF order[i] \in S THEN Remove(f[i - 1], order[i]) ELSE f[i - 1]]
           T == {n \in Nat : ~ \E f : D(f, n)}
<1>1. ASSUME T # {} PROVE FALSE
  <2>0. T \in SUBSET Nat
    OBVIOUS
  <2>1. PICK n \in T : \A m \in T : n <= m
    <3> HIDE DEF T
    <3> QED
      BY <1>1, <2>0, LeastOf
  <2>2. n \in Nat /\ ~ \E f : D(f, n)
    OBVIOUS
  <2>3. n # 0
    <3>1. D([i \in 0 .. 0 |-> l], 0)
      OBVIOUS
    <3> QED
      BY <2>2, <3>1
  <2>4. n - 1 \in Nat /\ n - 1 \notin T
    <3> HIDE DEF T
    <3> QED
      BY <2>1, <2>2, <2>3
  <2>5. PICK f : D(f, n - 1)
    BY <2>4
  <2> DEFINE g == [i \in 0 .. n |-> IF i < n THEN f[i]
                   ELSE IF order[n] \in S THEN Remove(f[n - 1], order[n]) ELSE f[n - 1]]
  <2>6. ASSUME NEW i \in 0 .. n
        PROVE  g[i] = IF i = 0 THEN l
                      ELSE IF order[i] \in S THEN Remove(g[i - 1], order[i]) ELSE g[i - 1]
    <3>1. CASE i = 0
      BY <2>2, <2>3, <2>5, <3>1
    <3>2. CASE i \in 1 .. n - 1
      <4>1. f[i] = IF order[i] \in S THEN Remove(f[i - 1], order[i]) ELSE f[i - 1]
        BY <2>2, <2>5, <3>2
      <4>2. g[i] = f[i] /\ g[i - 1] = f[i - 1]
        BY <2>2, <3>2
      <4> QED
        BY <3>2, <4>1, <4>2
    <3>3. CASE i = n
      BY <2>2, <2>3, <3>3
    <3> QED
      BY <2>2, <3>1, <3>2, <3>3
  <2>7. D(g, n)
    BY <2>6
  <2> QED
    BY <2>2, <2>7
<1>2. Len(order) \in Nat
  BY LenProperties
<1>3. PICK f : D(f, Len(order))
  BY <1>1, <1>2
<1> QED
  BY <1>3 DEF IsDrop

(* RemoveAll takes the keys of S out of the list, and no others: by the      *)
(* least number of keys after which it has not.                              *)
LEMMA RemoveAllSpells ==
    ASSUME NEW l, NEW q, Spells(l, q), NEW S
    PROVE  \E r : /\ Spells(RemoveAll(l, S), r) /\ Thins(q, r)
                  /\ Listed(r) = Listed(q) \ S
<1> DEFINE drop == CHOOSE f : IsDrop(f, l, S, q)
           Gone(i) == {q[j] : j \in {j \in 1 .. i : q[j] \in S}}
           Dropped(i) == \E r : /\ Spells(drop[i], r) /\ Thins(q, r)
                                /\ Listed(r) = Listed(q) \ Gone(i)
           T == {i \in 0 .. Len(q) : ~Dropped(i)}
<1>1. /\ Len(q) \in Nat /\ q \in Seq(Keys) /\ \A i \in 1 .. Len(q) : q[i] \in Keys
      /\ Cardinality(Keys) \in Nat /\ Len(q) <= Cardinality(Keys)
  BY LengthOf, ElementOfSeq DEF Spells
<1>2. FromHead(l, Cardinality(Keys)) = q
  BY <1>1, WalkIs, PrefixFull
<1>3. IsDrop(drop, l, S, q)
  BY <1>1, DropExists
<1>4. RemoveAll(l, S) = IF S = {} THEN l ELSE drop[Len(q)]
  BY <1>2 DEF RemoveAll, IsDrop
<1> HIDE DEF drop
<1>5. Dropped(0)
  <2>1. drop[0] = l /\ Gone(0) = {}
    BY <1>1, <1>3 DEF IsDrop
  <2> QED
    BY <2>1, ThinsItself
<1>6. ASSUME NEW i \in 1 .. Len(q), Dropped(i - 1) PROVE Dropped(i)
  <2>1. PICK r : Spells(drop[i - 1], r) /\ Thins(q, r) /\ Listed(r) = Listed(q) \ Gone(i - 1)
    BY <1>6
  <2>2. drop[i] = IF q[i] \in S THEN Remove(drop[i - 1], q[i]) ELSE drop[i - 1]
    <3> HIDE DEF Dropped, Gone
    <3>1. i \in 0 .. Len(q) /\ i # 0
      BY <1>1
    <3> QED
      BY <1>3, <3>1 DEF IsDrop
  <2>3. Gone(i) = IF q[i] \in S THEN Gone(i - 1) \cup {q[i]} ELSE Gone(i - 1)
    BY <1>1
  <2>4. CASE q[i] \notin S
    BY <2>1, <2>2, <2>3, <2>4
  <2>5. CASE q[i] \in S
    <3>1. PICK s : /\ Spells(Remove(drop[i - 1], q[i]), s) /\ Thins(r, s)
                   /\ Listed(s) = Listed(r) \ {q[i]}
      BY <1>1, <2>1, RemoveSpells
    <3>2. Thins(q, s)
      BY <2>1, <3>1, ThinsTransitive
    <3>3. Listed(s) = Listed(q) \ Gone(i)
      BY <2>1, <2>3, <2>5, <3>1
    <3> QED
      BY <2>2, <2>5, <3>1, <3>2, <3>3
  <2> QED
    BY <2>4, <2>5
<1>7. Dropped(Len(q))
  <2> SUFFICES ASSUME ~Dropped(Len(q)) PROVE FALSE
    OBVIOUS
  <2>1. T \in SUBSET Nat /\ T # {}
    BY <1>1
  <2>2. PICK i \in T : \A m \in T : i <= m
    <3> HIDE DEF T
    <3> QED
      BY <2>1, LeastOf
  <2>3. i \in 0 .. Len(q) /\ ~Dropped(i)
    OBVIOUS
  <2>4. i - 1 \in 0 .. Len(q) /\ i \in 1 .. Len(q)
    <3> HIDE DEF Dropped
    <3> QED
      BY <1>1, <1>5, <2>3
  <2>5. Dropped(i - 1)
    <3>1. i - 1 \notin T
      <4> HIDE DEF T
      <4> QED
        BY <1>1, <2>2, <2>3
    <3> QED
      BY <2>4, <3>1
  <2> QED
    BY <1>6, <2>3, <2>4, <2>5
<1>8. Gone(Len(q)) = Listed(q) \cap S
  BY DEF Listed
<1>9. CASE S = {}
  BY <1>4, <1>9, ThinsItself
<1>10. CASE S # {}
  BY <1>4, <1>7, <1>8, <1>10
<1> QED
  BY <1>9, <1>10

(* Add and Touch put a key at the end, or leave all where they are. *)
LEMMA InsertSpells ==
    ASSUME NEW l, NEW q, Spells(l, q), NEW k \in Keys
    PROVE  \E r : /\ Spells(Insert(l, k), r) /\ Listed(r) = Listed(q) \cup {k}
                  /\ r = q \/ (k \notin Listed(q) /\ r = Append(q, k))
<1>1. CASE k \in l.nodes
  BY <1>1 DEF Insert, Spells
<1>2. CASE k \notin l.nodes
  <2>1. Spells(Insert(l, k), Append(q, k))
    BY <1>2, AppendSpells DEF Insert
  <2>2. Listed(Append(q, k)) = Listed(q) \cup {k}
    <3>1. Insert(l, k).nodes = l.nodes \cup {k}
      BY <1>2 DEF Insert, AppendToTail
    <3> QED
      BY <2>1, <3>1 DEF Spells
  <2> QED
    BY <1>2, <2>1, <2>2 DEF Spells
<1> QED
  BY <1>1, <1>2

(* The last key of LRU: taken out of the list, and put at its end.           *)
LEMMA MoveSpells ==
    ASSUME NEW l, NEW q, Spells(l, q), NEW k \in Keys
    PROVE  \E s, r : /\ Spells(AppendToTail(Remove(l, k), k), r)
                     /\ Listed(r) = Listed(q) \cup {k}
                     /\ s \in Seq(Keys) /\ Thins(q, s) /\ k \notin Listed(s)
                     /\ r = Append(s, k)
<1>1. PICK s : Spells(Remove(l, k), s) /\ Thins(q, s) /\ Listed(s) = Listed(q) \ {k}
  BY RemoveSpells
<1>2. k \notin Remove(l, k).nodes
  BY <1>1 DEF Spells
<1>3. Spells(AppendToTail(Remove(l, k), k), Append(s, k))
  BY <1>1, <1>2, AppendSpells
<1>4. AppendToTail(Remove(l, k), k).nodes = Remove(l, k).nodes \cup {k}
  BY DEF AppendToTail
<1>5. Listed(Append(s, k)) = Listed(q) \cup {k}
  BY <1>1, <1>3, <1>4 DEF Spells
<1> QED
  BY <1>1, <1>3, <1>5 DEF Spells

(* One of the two. *)
Moves(q, r, k) ==
    \/ r = q
    \/ \E s \in Seq(Keys) : Thins(q, s) /\ k \notin Listed(s) /\ r = Append(s, k)

(* An entry that is written is put at the end, or keeps its place.           *)
LEMMA AddSpells ==
    ASSUME NEW l, NEW q, Spells(l, q), NEW k \in Keys, NEW strategy
    PROVE  \E r : /\ Spells(Add(strategy, l, k), r) /\ Moves(q, r, k)
                  /\ Listed(r) = Listed(q) \cup {k}
<1>1. CASE strategy = "LRU"
  <2>1. PICK s, r : /\ Spells(AppendToTail(Remove(l, k), k), r)
                    /\ Listed(r) = Listed(q) \cup {k}
                    /\ s \in Seq(Keys) /\ Thins(q, s) /\ k \notin Listed(s)
                    /\ r = Append(s, k)
    BY MoveSpells
  <2>2. Add(strategy, l, k) = AppendToTail(Remove(l, k), k)
    BY <1>1 DEF Add
  <2> QED
    BY <2>1, <2>2 DEF Moves
<1>2. CASE strategy # "LRU"
  <2>1. q \in Seq(Keys)
    BY DEF Spells
  <2> QED
    BY <1>2, <2>1, InsertSpells, ThinsItself DEF Add, Moves
<1> QED
  BY <1>1, <1>2

(* An entry that is read is put at the end, or keeps its place; only that of *)
(* LFU takes in a key it does not have.                                      *)
LEMMA TouchSpells ==
    ASSUME NEW l, NEW q, Spells(l, q), NEW k \in Keys, NEW strategy \in Strategies
    PROVE  \E r : /\ Spells(Touch(strategy, l, k), r) /\ Moves(q, r, k)
                  /\ Listed(r) = IF strategy = "LFU" THEN Listed(q) \cup {k} ELSE Listed(q)
<1>1. CASE strategy = "LRU"
  <2>1. CASE k \notin l.nodes
    BY <1>1, <2>1 DEF Touch, Moves
  <2>2. CASE k \in l.nodes
    <3>1. Touch(strategy, l, k) = AppendToTail(Remove(l, k), k)
      BY <1>1, <2>2 DEF Touch, Remove
    <3>2. Listed(q) = Listed(q) \cup {k}
      BY <2>2 DEF Spells
    <3>3. PICK s, r : /\ Spells(AppendToTail(Remove(l, k), k), r)
                      /\ Listed(r) = Listed(q) \cup {k}
                      /\ s \in Seq(Keys) /\ Thins(q, s) /\ k \notin Listed(s)
                      /\ r = Append(s, k)
      BY MoveSpells
    <3> QED
      BY <1>1, <3>1, <3>2, <3>3 DEF Moves
  <2> QED
    BY <2>1, <2>2
<1>2. CASE strategy = "FIFO"
  <2>1. Touch(strategy, l, k) = l
    BY <1>2 DEF Touch
  <2> QED
    BY <1>2, <2>1 DEF Moves
<1>3. CASE strategy = "LFU"
  <2>1. Touch(strategy, l, k) = Insert(l, k) /\ q \in Seq(Keys)
    BY <1>3 DEF Touch, Spells
  <2> QED
    BY <1>3, <2>1, InsertSpells, ThinsItself DEF Moves
<1> QED
  BY <1>1, <1>2, <1>3 DEF Strategies

-----------------------------------------------------------------------------
(* The heap of the LFU index: the scores. *)

(* The metadata of an entry that has an age. *)
Aged == [used : Nat, age : Nat \ {0}]

(* The score of k is not below that of l. *)
NotBelow(m, k, l) == ~Lower(m[k], m[l])

(* Scores are compared as fractions. *)
LEMMA CrossMultiplied ==
    ASSUME NEW p \in Nat, NEW q \in Nat, NEW r \in Nat,
           NEW x \in Nat \ {0}, NEW y \in Nat \ {0}, NEW z \in Nat \ {0},
           q * x <= p * y, r * y <= q * z
    PROVE  r * x <= p * z
OBVIOUS

(* They are in a total order. *)
LEMMA ScoreOrder ==
    ASSUME NEW a \in Aged, NEW b \in Aged, NEW c \in Aged
    PROVE  /\ ~Lower(a, a)
           /\ Lower(a, b) => ~Lower(b, a)
           /\ ~Lower(a, b) /\ ~Lower(b, c) => ~Lower(a, c)
           /\ Lower(a, b) /\ Lower(b, c) => Lower(a, c)
<1> DEFINE p == a.used + 1
           q == b.used + 1
           r == c.used + 1
<1>1. /\ p \in Nat /\ q \in Nat /\ r \in Nat
      /\ a.age \in Nat \ {0} /\ b.age \in Nat \ {0} /\ c.age \in Nat \ {0}
  BY DEF Aged
<1>2. /\ Lower(a, b) <=> p * b.age < q * a.age
      /\ Lower(b, a) <=> q * a.age < p * b.age
      /\ Lower(b, c) <=> q * c.age < r * b.age
      /\ Lower(c, b) <=> r * b.age < q * c.age
      /\ Lower(a, c) <=> p * c.age < r * a.age
      /\ Lower(c, a) <=> r * a.age < p * c.age
      /\ Lower(a, a) <=> p * a.age < p * a.age
  BY DEF Lower
<1> HIDE DEF p, q, r
<1>3. /\ p * b.age \in Nat /\ q * a.age \in Nat /\ q * c.age \in Nat /\ r * b.age \in Nat
      /\ p * c.age \in Nat /\ r * a.age \in Nat /\ p * a.age \in Nat
  BY <1>1
<1>4. ~Lower(a, a) /\ (Lower(a, b) => ~Lower(b, a))
  BY <1>2, <1>3
<1>5. ASSUME ~Lower(a, b), ~Lower(b, c) PROVE ~Lower(a, c)
  <2>1. q * a.age <= p * b.age /\ r * b.age <= q * c.age
    BY <1>2, <1>3, <1>5
  <2>2. r * a.age <= p * c.age
    BY <1>1, <2>1, CrossMultiplied
  <2> QED
    BY <1>2, <1>3, <2>2
<1>6. ASSUME Lower(a, b), Lower(b, c), ~Lower(a, c) PROVE FALSE
  <2>1. r * a.age <= p * c.age /\ q * c.age <= r * b.age
    BY <1>2, <1>3, <1>6
  <2>2. q * a.age <= p * b.age
    BY <1>1, <2>1, CrossMultiplied
  <2> QED
    BY <1>2, <1>3, <1>6, <2>2
<1> QED
  BY <1>4, <1>5, <1>6

-----------------------------------------------------------------------------
(* The heap. *)

(* The parent of a place of a heap. *)
LEMMA ParentOf ==
    /\ \A i \in Nat : i > 1 => i \div 2 \in 1 .. (i - 1)
    /\ \A i, j \in Nat : i \div 2 = j <=> (i = 2 * j \/ i = 2 * j + 1)
OBVIOUS

(* Two exchanged keys. *)
Exchanged(h, i, j) == [h EXCEPT ![i] = h[j], ![j] = h[i]]

(* An exchange of keys leaves a heap with the same keys. *)
LEMMA ExchangeKeeps ==
    ASSUME NEW D, NEW h \in Seq(D), NEW n \in Nat, n = Len(h), Distinct(h),
           NEW i \in 1 .. n, NEW j \in 1 .. n, i # j, NEW g, g = Exchanged(h, i, j)
    PROVE  /\ g \in Seq(D) /\ Len(g) = n /\ g[i] = h[j] /\ g[j] = h[i]
           /\ \A k \in 1 .. n : k # i /\ k # j => g[k] = h[k]
           /\ Distinct(g) /\ Listed(g) = Listed(h)
<1>1. /\ g \in Seq(D) /\ Len(g) = n /\ g[i] = h[j] /\ g[j] = h[i]
      /\ \A k \in 1 .. n : k # i /\ k # j => g[k] = h[k]
  BY DEF Exchanged
<1>2. Len(h) = n /\ Len(g) = n
  BY <1>1
<1>3. Distinct(g)
  BY <1>1, <1>2 DEF Distinct
<1>4. Listed(g) \subseteq Listed(h)
  BY <1>1, <1>2 DEF Listed
<1>5. ASSUME NEW k \in 1 .. n PROVE \E l \in 1 .. n : g[l] = h[k]
  BY <1>1
<1>6. Listed(h) \subseteq Listed(g)
  BY <1>2, <1>5 DEF Listed
<1> QED
  BY <1>1, <1>3, <1>4, <1>6

(* The scores of a heap fall from the root, but between a place and its      *)
(* parent or, for those of Sinking, between it and its children.  There, the *)
(* children are compared with the parent of the place.                       *)
Rising(m, h, i) ==
    /\ \A j \in 2 .. Len(h) : j # i => NotBelow(m, h[j \div 2], h[j])
    /\ i > 1 => \A j \in 2 .. Len(h) : j \div 2 = i => NotBelow(m, h[i \div 2], h[j])

Sinking(m, h, i) ==
    /\ \A j \in 2 .. Len(h) : j \div 2 # i => NotBelow(m, h[j \div 2], h[j])
    /\ i > 1 => \A j \in 2 .. Len(h) : j \div 2 = i => NotBelow(m, h[i \div 2], h[j])

IsHeap(m, h) == \A j \in 2 .. Len(h) : NotBelow(m, h[j \div 2], h[j])

(* A key with a higher score than its parent changes places with it. *)
LEMMA RisingStep ==
    ASSUME NEW m, NEW D, NEW h \in Seq(D), NEW n \in Nat, n = Len(h), Distinct(h),
           \A k \in Listed(h) : m[k] \in Aged,
           NEW i \in 1 .. n, i > 1, Rising(m, h, i),
           NEW p, p = i \div 2, Lower(m[h[p]], m[h[i]])
    PROVE  Rising(m, Exchanged(h, i, p), p)
<1> DEFINE g == Exchanged(h, i, p)
<1>1. p \in 1 .. (i - 1) /\ p # i /\ p \in 1 .. n /\ i \in 1 .. n
  BY ParentOf
<1>2. \A j \in 2 .. n : j \div 2 \in 1 .. n /\ j \div 2 < j
  BY ParentOf
<1> HIDE DEF g
<1>3. /\ g \in Seq(D) /\ Len(g) = n /\ g[i] = h[p] /\ g[p] = h[i]
      /\ \A k \in 1 .. n : k # i /\ k # p => g[k] = h[k]
  <2>1. g = Exchanged(h, i, p)
    BY DEF g
  <2> QED
    BY <1>1, <2>1, ExchangeKeeps
<1>4. Len(h) = n /\ Len(g) = n
  BY <1>3
<1>5. \A k \in 1 .. n : m[h[k]] \in Aged
  BY <1>4 DEF Listed
<1>6. /\ \A k, l \in 1 .. n : Lower(m[h[k]], m[h[l]]) => NotBelow(m, h[l], h[k])
      /\ \A k, l, o \in 1 .. n :
            NotBelow(m, h[k], h[l]) /\ NotBelow(m, h[l], h[o]) => NotBelow(m, h[k], h[o])
  BY <1>5, ScoreOrder DEF NotBelow
<1>7. NotBelow(m, h[i], h[p])
  BY <1>1, <1>6
<1>8. /\ \A j \in 2 .. n : j # i => NotBelow(m, h[j \div 2], h[j])
      /\ \A j \in 2 .. n : j \div 2 = i => NotBelow(m, h[p], h[j])
  BY <1>4 DEF Rising
<1>9. ASSUME NEW j \in 2 .. n, j # p PROVE NotBelow(m, g[j \div 2], g[j])
  <2>1. CASE j = i
    BY <1>3, <1>7, <2>1
  <2>2. CASE j # i /\ j \div 2 = i
    BY <1>3, <1>8, <1>9, <2>2
  <2>3. CASE j # i /\ j \div 2 = p
    <3>1. NotBelow(m, h[p], h[j]) /\ g[j] = h[j] /\ g[j \div 2] = h[i]
      BY <1>3, <1>8, <1>9, <2>3
    <3> QED
      BY <1>1, <1>6, <1>7, <3>1
  <2>4. CASE j # i /\ j \div 2 # i /\ j \div 2 # p
    BY <1>2, <1>3, <1>8, <1>9, <2>4
  <2> QED
    BY <2>1, <2>2, <2>3, <2>4
<1>10. ASSUME p > 1, NEW j \in 2 .. n, j \div 2 = p PROVE NotBelow(m, g[p \div 2], g[j])
  <2>1. p \in 2 .. n /\ p \div 2 \in 1 .. n /\ p \div 2 # p /\ p \div 2 # i
    BY <1>1, <1>2, <1>10
  <2>2. NotBelow(m, h[p \div 2], h[p]) /\ g[p \div 2] = h[p \div 2]
    BY <1>1, <1>3, <1>8, <2>1
  <2>3. CASE j = i
    BY <1>3, <2>2, <2>3
  <2>4. CASE j # i
    <3>1. NotBelow(m, h[p], h[j]) /\ g[j] = h[j]
      BY <1>2, <1>3, <1>8, <1>10, <2>4
    <3> QED
      BY <1>1, <1>6, <2>1, <2>2, <3>1
  <2> QED
    BY <2>3, <2>4
<1> QED
  BY <1>4, <1>9, <1>10 DEF Rising, g

(* The highest score, of a key and its children. *)
LEMMA LargestIs ==
    ASSUME NEW m, NEW D, NEW h \in Seq(D), NEW n \in Nat, n = Len(h),
           \A k \in Listed(h) : m[k] \in Aged, NEW i \in 1 .. n
    PROVE  /\ Largest(m, h, i) \in 1 .. n
           /\ \A j \in 2 .. n : j \div 2 = i => NotBelow(m, h[Largest(m, h, i)], h[j])
           /\ Largest(m, h, i) # i =>
                 /\ Largest(m, h, i) > i /\ Largest(m, h, i) \div 2 = i
                 /\ Lower(m[h[i]], m[h[Largest(m, h, i)]])
<1> DEFINE left == IF 2 * i <= n /\ Lower(m[h[i]], m[h[2 * i]]) THEN 2 * i ELSE i
           l == IF 2 * i + 1 <= n /\ Lower(m[h[left]], m[h[2 * i + 1]]) THEN 2 * i + 1 ELSE left
<1>1. Len(h) = n
  OBVIOUS
<1>2. Largest(m, h, i) = l
  BY <1>1 DEF Largest
<1>3. \A k \in 1 .. n : m[h[k]] \in Aged
  BY <1>1 DEF Listed
<1>4. /\ \A k, o \in 1 .. n : Lower(m[h[k]], m[h[o]]) => NotBelow(m, h[o], h[k])
      /\ \A k \in 1 .. n : NotBelow(m, h[k], h[k])
      /\ \A k, o, q \in 1 .. n :
            NotBelow(m, h[k], h[o]) /\ NotBelow(m, h[o], h[q]) => NotBelow(m, h[k], h[q])
      /\ \A k, o, q \in 1 .. n :
            Lower(m[h[k]], m[h[o]]) /\ Lower(m[h[o]], m[h[q]]) => Lower(m[h[k]], m[h[q]])
  BY <1>3, ScoreOrder DEF NotBelow
<1>5. \A j \in 2 .. n : j \div 2 = i <=> (j = 2 * i \/ j = 2 * i + 1)
  BY ParentOf
<1>6. /\ left \in 1 .. n
      /\ 2 * i <= n => NotBelow(m, h[left], h[2 * i])
      /\ left = i \/ (left = 2 * i /\ Lower(m[h[i]], m[h[left]]))
  <2>1. CASE 2 * i <= n /\ Lower(m[h[i]], m[h[2 * i]])
    BY <1>4, <2>1
  <2>2. CASE ~(2 * i <= n /\ Lower(m[h[i]], m[h[2 * i]]))
    BY <1>4, <2>2 DEF NotBelow
  <2> QED
    BY <2>1, <2>2
<1> HIDE DEF left
<1> DEFINE Goal == /\ l \in 1 .. n
                   /\ \A j \in 2 .. n : j \div 2 = i => NotBelow(m, h[l], h[j])
                   /\ l # i => l > i /\ l \div 2 = i /\ Lower(m[h[i]], m[h[l]])
<1>7. ASSUME 2 * i + 1 <= n /\ Lower(m[h[left]], m[h[2 * i + 1]])
      PROVE  Goal
  <2>1. l = 2 * i + 1 /\ l \in 1 .. n /\ l \in 2 .. n /\ 2 * i <= n
    BY <1>7
  <2>2. NotBelow(m, h[l], h[2 * i]) /\ NotBelow(m, h[l], h[2 * i + 1])
    <3>1. NotBelow(m, h[l], h[left]) /\ 2 * i \in 1 .. n
      BY <1>4, <1>6, <1>7, <2>1
    <3> HIDE DEF l
    <3> QED
      BY <1>4, <1>6, <2>1, <3>1
  <2>3. Lower(m[h[i]], m[h[l]])
    BY <1>4, <1>6, <1>7, <2>1
  <2>4. \A j \in 2 .. n : j \div 2 = i => NotBelow(m, h[l], h[j])
    <3> HIDE DEF l
    <3> QED
      BY <1>5, <2>2
  <2>5. l > i /\ l \div 2 = i
    <3> HIDE DEF l
    <3> QED
      BY <1>5, <2>1
  <2> HIDE DEF l
  <2> QED
    BY <2>1, <2>3, <2>4, <2>5
<1>8. ASSUME ~(2 * i + 1 <= n /\ Lower(m[h[left]], m[h[2 * i + 1]]))
      PROVE  Goal
  <2>1. l = left
    BY <1>8
  <2>2. 2 * i + 1 <= n => NotBelow(m, h[l], h[2 * i + 1])
    BY <1>8, <2>1 DEF NotBelow
  <2> HIDE DEF l
  <2>3. l # i => l > i /\ l \in 2 .. n /\ l = 2 * i
    BY <1>6, <2>1
  <2> QED
    BY <1>5, <1>6, <2>1, <2>2, <2>3
<1>9. Goal
  BY <1>7, <1>8
<1> HIDE DEF l
<1> QED
  BY <1>2, <1>9

(* A key with a lower score than a child changes places with the larger one. *)
LEMMA SinkingStep ==
    ASSUME NEW m, NEW D, NEW h \in Seq(D), NEW n \in Nat, n = Len(h), Distinct(h),
           \A k \in Listed(h) : m[k] \in Aged,
           NEW i \in 1 .. n, Sinking(m, h, i), Largest(m, h, i) # i
    PROVE  Sinking(m, Exchanged(h, i, Largest(m, h, i)), Largest(m, h, i))
<1> DEFINE l == Largest(m, h, i)
           g == Exchanged(h, i, l)
<1>1. /\ l \in 1 .. n /\ l > i /\ l # i /\ l \div 2 = i /\ Lower(m[h[i]], m[h[l]])
      /\ \A j \in 2 .. n : j \div 2 = i => NotBelow(m, h[l], h[j])
  BY LargestIs
<1>2. \A j \in 2 .. n : j \div 2 \in 1 .. n /\ j \div 2 < j
  BY ParentOf
<1> HIDE DEF l, g
<1>3. /\ g \in Seq(D) /\ Len(g) = n /\ g[i] = h[l] /\ g[l] = h[i]
      /\ \A k \in 1 .. n : k # i /\ k # l => g[k] = h[k]
  <2>1. g = Exchanged(h, i, l)
    BY DEF g
  <2> QED
    BY <1>1, <2>1, ExchangeKeeps
<1>4. Len(h) = n /\ Len(g) = n
  BY <1>3
<1>5. \A k \in 1 .. n : m[h[k]] \in Aged
  BY <1>4 DEF Listed
<1>6. NotBelow(m, h[l], h[i])
  BY <1>1, <1>5, ScoreOrder DEF NotBelow
<1>8. /\ \A j \in 2 .. n : j \div 2 # i => NotBelow(m, h[j \div 2], h[j])
      /\ i > 1 => NotBelow(m, h[i \div 2], h[l])
  BY <1>1, <1>4 DEF Sinking
<1>9. ASSUME NEW j \in 2 .. n, j \div 2 # l PROVE NotBelow(m, g[j \div 2], g[j])
  <2>1. CASE j = l
    BY <1>1, <1>3, <1>6, <2>1
  <2>2. CASE j # l /\ j \div 2 = i
    BY <1>1, <1>2, <1>3, <2>2
  <2>3. CASE j = i
    BY <1>1, <1>2, <1>3, <1>8, <1>9, <2>3
  <2>4. CASE j # i /\ j # l /\ j \div 2 # i
    BY <1>2, <1>3, <1>8, <1>9, <2>4
  <2> QED
    BY <2>1, <2>2, <2>3, <2>4
<1>10. ASSUME l > 1, NEW j \in 2 .. n, j \div 2 = l PROVE NotBelow(m, g[l \div 2], g[j])
  <2>1. g[l \div 2] = h[l] /\ j # l /\ j # i
    BY <1>1, <1>2, <1>3, <1>10
  <2>2. g[j] = h[j] /\ j \div 2 # i
    BY <1>1, <1>3, <1>10, <2>1
  <2>3. NotBelow(m, h[j \div 2], h[j])
    BY <1>8, <2>2
  <2> QED
    BY <1>10, <2>1, <2>2, <2>3
<1> QED
  BY <1>4, <1>9, <1>10 DEF Sinking, g, l

-----------------------------------------------------------------------------
(* The loops that restore the heap. *)

(* What SiftUp and SiftDown define their loops to be.                        *)
IsUp(up, m, heap) ==
    up = [x \in Places(m, heap) |->
             LET h == x[1]
                 i == x[2]
             IN  IF i > 1 /\ Lower(m[h[i \div 2]], m[h[i]]) THEN up[Swap(x, i \div 2)] ELSE h]

IsDown(down, m, heap) ==
    down = [x \in Places(m, heap) |->
               LET largest == Largest(m, x[1], x[2])
               IN  IF largest = x[2] THEN x[1] ELSE down[Swap(x, largest)]]

(* The places a loop is in are of a heap as long as the given one.           *)
LEMMA PlacesAre ==
    ASSUME NEW m, NEW heap \in Seq(DOMAIN m), NEW x \in Places(m, heap)
    PROVE  /\ x = <<x[1], x[2]>> /\ x[2] \in 1 .. Len(heap)
           /\ x[1] \in Seq(DOMAIN m) /\ Len(x[1]) = Len(heap)
           /\ \A j \in 1 .. Len(heap) : j # x[2] =>
                 Swap(x, j) \in Places(m, heap) /\ Swap(x, j) = <<Exchanged(x[1], x[2], j), j>>
<1>1. Len(heap) \in Nat
  BY LenProperties
<1>2. x = <<x[1], x[2]>> /\ x[2] \in 1 .. Len(heap) /\ x[1] \in [1 .. Len(heap) -> DOMAIN m]
  BY DEF Places
<1>3. x[1] \in Seq(DOMAIN m) /\ Len(x[1]) = Len(heap)
  BY <1>1, <1>2
<1>4. ASSUME NEW j \in 1 .. Len(heap), j # x[2]
      PROVE  Swap(x, j) \in Places(m, heap) /\ Swap(x, j) = <<Exchanged(x[1], x[2], j), j>>
  <2>1. Swap(x, j) = <<Exchanged(x[1], x[2], j), j>>
    BY DEF Swap, Exchanged
  <2>2. Exchanged(x[1], x[2], j) \in [1 .. Len(heap) -> DOMAIN m]
    BY <1>2, <1>4 DEF Exchanged
  <2> QED
    BY <2>1, <2>2 DEF Places
<1> QED
  BY <1>2, <1>3, <1>4

(* A heap but for its last key becomes one with the same keys.               *)
LEMMA SiftUpIs ==
    ASSUME NEW m, NEW heap \in Seq(DOMAIN m), heap # <<>>, Distinct(heap),
           \A k \in Listed(heap) : m[k] \in Aged, Rising(m, heap, Len(heap))
    PROVE  /\ SiftUp(m, heap) \in Seq(DOMAIN m) /\ Len(SiftUp(m, heap)) = Len(heap)
           /\ Distinct(SiftUp(m, heap)) /\ Listed(SiftUp(m, heap)) = Listed(heap)
           /\ IsHeap(m, SiftUp(m, heap))
<1> DEFINE n == Len(heap)
           S == Places(m, heap)
           Goes == {x \in S : x[2] > 1 /\ Lower(m[x[1][x[2] \div 2]], m[x[1][x[2]]])}
           next == [x \in S |-> Swap(x, x[2] \div 2)]
           out == [x \in S |-> x[1]]
           mu == [x \in S |-> x[2]]
           P == {x \in S : Distinct(x[1]) /\ Listed(x[1]) = Listed(heap) /\ Rising(m, x[1], x[2])}
           up == CHOOSE up : IsUp(up, m, heap)
<1>1. n \in Nat /\ n # 0
  BY LenProperties, EmptySeq
<1>2. ASSUME NEW x \in S, x \in Goes
      PROVE  /\ next[x] = <<Exchanged(x[1], x[2], x[2] \div 2), x[2] \div 2>>
             /\ x[2] \div 2 \in 1 .. (x[2] - 1)
             /\ next[x] \in S /\ mu[next[x]] < mu[x]
  <2>1. x[2] \in 1 .. n /\ x[2] > 1
    BY <1>2, PlacesAre
  <2>2. x[2] \div 2 \in 1 .. (x[2] - 1)
    BY <1>1, <2>1, ParentOf
  <2>3. /\ Swap(x, x[2] \div 2) \in S
        /\ Swap(x, x[2] \div 2) = <<Exchanged(x[1], x[2], x[2] \div 2), x[2] \div 2>>
    BY <1>1, <2>1, <2>2, PlacesAre
  <2> HIDE DEF S
  <2>4. next[x] = Swap(x, x[2] \div 2)
    OBVIOUS
  <2>5. mu[next[x]] = x[2] \div 2 /\ mu[x] = x[2]
    BY <2>3, <2>4
  <2> QED
    BY <1>1, <2>1, <2>2, <2>3, <2>4, <2>5
<1>3. \A x \in S : mu[x] \in 0 .. n
  BY <1>1, PlacesAre
<1>4. ASSUME NEW x \in P, x \in Goes PROVE next[x] \in P
  <2> DEFINE h == x[1]
             i == x[2]
             p == x[2] \div 2
             g == Exchanged(h, i, p)
  <2>1. /\ h \in Seq(DOMAIN m) /\ Len(h) = n /\ i \in 1 .. n /\ i > 1
        /\ Distinct(h) /\ Listed(h) = Listed(heap) /\ Rising(m, h, i)
        /\ Lower(m[h[p]], m[h[i]])
    BY <1>4, PlacesAre
  <2>2. next[x] \in S /\ next[x] = <<g, p>> /\ p \in 1 .. (i - 1)
    BY <1>2, <1>4
  <2>3. p \in 1 .. n /\ p # i /\ p = i \div 2
    BY <1>1, <2>1, <2>2
  <2> HIDE DEF h, i, p, g, S, next, n
  <2>4. Distinct(g) /\ Listed(g) = Listed(h)
    <3>1. g = Exchanged(h, i, p)
      BY DEF g
    <3> QED
      BY <1>1, <2>1, <2>3, <3>1, ExchangeKeeps
  <2>5. Rising(m, g, p)
    <3>1. \A k \in Listed(h) : m[k] \in Aged
      BY <2>1
    <3> QED
      BY <1>1, <2>1, <2>3, <3>1, RisingStep DEF g
  <2> QED
    BY <2>1, <2>2, <2>4, <2>5
<1>5. \A f : IsUp(f, m, heap) <=> IsLoop(f, S, Goes, next, out)
  <2>1. ASSUME NEW f
        PROVE [x \in S |-> IF x \in Goes THEN f[next[x]] ELSE out[x]] =
              [x \in S |-> LET h == x[1]
                               i == x[2]
                           IN  IF i > 1 /\ Lower(m[h[i \div 2]], m[h[i]]) THEN f[Swap(x, i \div 2)] ELSE h]
    OBVIOUS
  <2> QED
    BY <2>1 DEF IsUp, IsLoop
<1>6. IsLoop(up, S, Goes, next, out)
  <2>1. \E f : IsLoop(f, S, Goes, next, out)
    <3>1. \A x \in S : x \in Goes => next[x] \in S /\ mu[next[x]] < mu[x]
      BY <1>2
    <3> HIDE DEF S, Goes, next, out, mu, n
    <3> QED
      BY <1>1, <1>3, <3>1, LoopExists
  <2> QED
    BY <1>5, <2>1
<1>7. SiftUp(m, heap) = up[<<heap, n>>]
  BY DEF SiftUp, IsUp
<1>8. <<heap, n>> \in P
  <2>1. heap \in [1 .. n -> DOMAIN m] /\ n \in 1 .. n
    BY <1>1, LenProperties
  <2> QED
    BY <2>1 DEF Places
<1>9. PICK y \in P \ Goes : up[<<heap, n>>] = out[y]
  <2>1. \A x \in S : x \in Goes => next[x] \in S /\ mu[next[x]] < mu[x]
    BY <1>2
  <2>2. P \in SUBSET S /\ \A x \in P : x \in Goes => next[x] \in P
    BY <1>4
  <2> HIDE DEF S, Goes, next, out, mu, n, P, up
  <2> QED
    BY <1>1, <1>3, <1>6, <1>8, <2>1, <2>2, LoopEnds
<1> DEFINE g == y[1]
           i == y[2]
<1>10. SiftUp(m, heap) = g
  BY <1>7, <1>9
<1>11. /\ g \in Seq(DOMAIN m) /\ Len(g) = n /\ i \in 1 .. n
       /\ Distinct(g) /\ Listed(g) = Listed(heap) /\ Rising(m, g, i)
       /\ ~(i > 1 /\ Lower(m[g[i \div 2]], m[g[i]]))
  BY <1>9, PlacesAre
<1> HIDE DEF g, i
<1>12. IsHeap(m, g)
  BY <1>1, <1>11 DEF Rising, IsHeap, NotBelow
<1> QED
  BY <1>10, <1>11, <1>12

(* A loop of SiftDown goes down, whatever the scores are. *)
LEMMA LargestUp ==
    ASSUME NEW m, NEW h, NEW i \in 1 .. Len(h), Len(h) \in Nat, Largest(m, h, i) # i
    PROVE  Largest(m, h, i) \in (i + 1) .. Len(h)
BY DEF Largest

(* A heap but for its root becomes one with the same keys. *)
LEMMA SiftDownIs ==
    ASSUME NEW m, NEW heap \in Seq(DOMAIN m), heap # <<>>, Distinct(heap),
           \A k \in Listed(heap) : m[k] \in Aged, Sinking(m, heap, 1)
    PROVE  /\ SiftDown(m, heap) \in Seq(DOMAIN m) /\ Len(SiftDown(m, heap)) = Len(heap)
           /\ Distinct(SiftDown(m, heap)) /\ Listed(SiftDown(m, heap)) = Listed(heap)
           /\ IsHeap(m, SiftDown(m, heap))
<1> DEFINE n == Len(heap)
           S == Places(m, heap)
           To(x) == Largest(m, x[1], x[2])
           Goes == {x \in S : To(x) # x[2]}
           next == [x \in S |-> Swap(x, To(x))]
           out == [x \in S |-> x[1]]
           mu == [x \in S |-> n - x[2]]
           P == {x \in S : Distinct(x[1]) /\ Listed(x[1]) = Listed(heap) /\ Sinking(m, x[1], x[2])}
           down == CHOOSE down : IsDown(down, m, heap)
<1>1. n \in Nat /\ n # 0
  BY LenProperties, EmptySeq
<1>2. ASSUME NEW x \in S, x \in Goes
      PROVE  /\ next[x] = <<Exchanged(x[1], x[2], To(x)), To(x)>>
             /\ To(x) \in (x[2] + 1) .. n
             /\ next[x] \in S /\ mu[next[x]] < mu[x]
  <2>1. x[2] \in 1 .. n /\ To(x) # x[2] /\ Len(x[1]) = n
    BY <1>2, PlacesAre
  <2>2. To(x) \in (x[2] + 1) .. n /\ To(x) \in 1 .. n /\ n - To(x) < n - x[2]
    <3>1. Largest(m, x[1], x[2]) \in (x[2] + 1) .. n
      BY <1>1, <2>1, LargestUp
    <3> QED
      BY <1>1, <2>1, <3>1
  <2> HIDE DEF To
  <2>3. Swap(x, To(x)) \in S /\ Swap(x, To(x)) = <<Exchanged(x[1], x[2], To(x)), To(x)>>
    BY <1>1, <2>1, <2>2, PlacesAre
  <2> HIDE DEF S
  <2>4. next[x] = Swap(x, To(x))
    OBVIOUS
  <2>5. mu[next[x]] = n - To(x) /\ mu[x] = n - x[2]
    BY <2>3, <2>4
  <2> HIDE DEF next, mu, n
  <2> QED
    BY <2>2, <2>3, <2>4, <2>5
<1>3. \A x \in S : mu[x] \in 0 .. n
  BY <1>1, PlacesAre
<1>4. ASSUME NEW x \in P, x \in Goes PROVE next[x] \in P
  <2> DEFINE h == x[1]
             i == x[2]
             l == To(x)
             g == Exchanged(h, i, l)
  <2>1. /\ h \in Seq(DOMAIN m) /\ Len(h) = n /\ i \in 1 .. n
        /\ Distinct(h) /\ Listed(h) = Listed(heap) /\ Sinking(m, h, i)
        /\ Largest(m, h, i) # i
    BY <1>4, PlacesAre
  <2>2. next[x] \in S /\ next[x] = <<g, l>> /\ l \in (i + 1) .. n
    BY <1>2, <1>4
  <2>3. l \in 1 .. n /\ l # i /\ l = Largest(m, h, i)
    BY <1>1, <2>1, <2>2
  <2> HIDE DEF h, i, l, g, S, next, n, To
  <2>4. Distinct(g) /\ Listed(g) = Listed(h)
    <3>1. g = Exchanged(h, i, l)
      BY DEF g
    <3> QED
      BY <1>1, <2>1, <2>3, <3>1, ExchangeKeeps
  <2>5. Sinking(m, g, l)
    <3>1. \A k \in Listed(h) : m[k] \in Aged
      BY <2>1
    <3> QED
      BY <1>1, <2>1, <2>3, <3>1, SinkingStep DEF g
  <2> QED
    BY <2>1, <2>2, <2>4, <2>5
<1>5. \A f : IsDown(f, m, heap) <=> IsLoop(f, S, Goes, next, out)
  <2>1. ASSUME NEW f
        PROVE [x \in S |-> IF x \in Goes THEN f[next[x]] ELSE out[x]] =
              [x \in S |-> LET largest == Largest(m, x[1], x[2])
                           IN  IF largest = x[2] THEN x[1] ELSE f[Swap(x, largest)]]
    OBVIOUS
  <2> QED
    BY <2>1 DEF IsDown, IsLoop
<1>6. IsLoop(down, S, Goes, next, out)
  <2>1. \E f : IsLoop(f, S, Goes, next, out)
    <3>1. \A x \in S : x \in Goes => next[x] \in S /\ mu[next[x]] < mu[x]
      BY <1>2
    <3> HIDE DEF S, Goes, next, out, mu, n
    <3> QED
      BY <1>1, <1>3, <3>1, LoopExists
  <2> QED
    BY <1>5, <2>1
<1>7. SiftDown(m, heap) = down[<<heap, 1>>]
  BY DEF SiftDown, IsDown
<1>8. <<heap, 1>> \in P
  <2>1. heap \in [1 .. n -> DOMAIN m] /\ 1 \in 1 .. n
    BY <1>1, LenProperties
  <2> QED
    BY <2>1 DEF Places
<1>9. PICK y \in P \ Goes : down[<<heap, 1>>] = out[y]
  <2>1. \A x \in S : x \in Goes => next[x] \in S /\ mu[next[x]] < mu[x]
    BY <1>2
  <2>2. P \in SUBSET S /\ \A x \in P : x \in Goes => next[x] \in P
    BY <1>4
  <2> HIDE DEF S, Goes, next, out, mu, n, P, down
  <2> QED
    BY <1>1, <1>3, <1>6, <1>8, <2>1, <2>2, LoopEnds
<1> DEFINE g == y[1]
           i == y[2]
<1>10. SiftDown(m, heap) = g
  BY <1>7, <1>9
<1>11. /\ g \in Seq(DOMAIN m) /\ Len(g) = n /\ i \in 1 .. n
       /\ Distinct(g) /\ Listed(g) = Listed(heap) /\ Sinking(m, g, i)
       /\ Largest(m, g, i) = i
  BY <1>9, PlacesAre
<1> HIDE DEF g, i, n
<1>12. IsHeap(m, g)
  <2>1. \A k \in Listed(g) : m[k] \in Aged
    BY <1>11
  <2>2. \A j \in 2 .. n : j \div 2 = i => NotBelow(m, g[i], g[j])
    <3>1. g \in Seq(DOMAIN m) /\ n = Len(g) /\ Distinct(g) /\ i \in 1 .. n /\ n \in Nat
      BY <1>1, <1>11
    <3>2. \A j \in 2 .. n : j \div 2 = i => NotBelow(m, g[Largest(m, g, i)], g[j])
      BY <2>1, <3>1, LargestIs
    <3> QED
      BY <1>11, <3>2
  <2> QED
    BY <1>1, <1>11, <2>2 DEF Sinking, IsHeap
<1> QED
  BY <1>10, <1>11, <1>12 DEF n

(* The root of a heap has the highest score: by the least place that has a   *)
(* higher one.                                                               *)
LEMMA RootIs ==
    ASSUME NEW m, NEW D, NEW h \in Seq(D), \A k \in Listed(h) : m[k] \in Aged, IsHeap(m, h),
           NEW j \in 1 .. Len(h)
    PROVE  NotBelow(m, h[1], h[j])
<1> DEFINE n == Len(h)
           T == {i \in 1 .. n : ~NotBelow(m, h[1], h[i])}
<1>1. n \in Nat /\ \A i \in 1 .. n : m[h[i]] \in Aged
  BY LenProperties DEF Listed
<1>2. ASSUME T # {} PROVE FALSE
  <2>0. T \in SUBSET Nat
    BY <1>1
  <2>1. PICK i \in T : \A o \in T : i <= o
    <3> HIDE DEF T
    <3> QED
      BY <1>2, <2>0, LeastOf
  <2> DEFINE p == i \div 2
  <2>2. i \in 1 .. n /\ ~NotBelow(m, h[1], h[i]) /\ 1 \in 1 .. n
    BY <1>1
  <2>3. i > 1
    BY <1>1, <2>2, ScoreOrder DEF NotBelow
  <2>4. p \in 1 .. (i - 1)
    BY <1>1, <2>2, <2>3, ParentOf
  <2>5. NotBelow(m, h[p], h[i])
    BY <1>1, <2>2, <2>3 DEF IsHeap
  <2> HIDE DEF p
  <2>6. p \in 1 .. n /\ p \notin T
    <3> HIDE DEF T
    <3> QED
      BY <1>1, <2>1, <2>2, <2>4
  <2>7. NotBelow(m, h[1], h[p])
    BY <2>6
  <2> QED
    BY <1>1, <2>2, <2>5, <2>6, <2>7, ScoreOrder DEF NotBelow
<1> QED
  BY <1>2

(* What the candidates are when the keys of seen have been looked at.        *)
Selected(m, h, seen, count, grace) ==
    LET eligible == {k \in seen : Eligible(m, grace, k)}
    IN  /\ h \in Seq(DOMAIN m) /\ Distinct(h) /\ Listed(h) \subseteq eligible
        /\ IsHeap(m, h)
        /\ Len(h) <= count
        /\ Len(h) < count => Listed(h) = eligible
        /\ \A s \in Listed(h), k \in eligible \ Listed(h) : NotBelow(m, k, s)

(* An added key is risen. *)
LEMMA AppendedRises ==
    ASSUME NEW m, NEW D, NEW h \in Seq(D), NEW k \in D, k \notin Listed(h), Distinct(h), IsHeap(m, h)
    PROVE  /\ Append(h, k) \in Seq(D) /\ Append(h, k) # <<>> /\ Len(Append(h, k)) = Len(h) + 1
           /\ Distinct(Append(h, k)) /\ Listed(Append(h, k)) = Listed(h) \cup {k}
           /\ Rising(m, Append(h, k), Len(Append(h, k)))
<1> DEFINE g == Append(h, k)
           n == Len(h)
<1>1. /\ n \in Nat /\ g \in Seq(D) /\ Len(g) = n + 1 /\ g[n + 1] = k
      /\ \A i \in 1 .. n : g[i] = h[i]
  BY AppendProperties, LenProperties
<1>2. \A i \in 1 .. n : h[i] # k
  BY DEF Listed
<1> HIDE DEF g
<1>3. g # <<>>
  BY <1>1
<1>4. Distinct(g)
  BY <1>1, <1>2 DEF Distinct
<1>5. Listed(g) = Listed(h) \cup {k}
  <2>1. 1 .. (n + 1) = (1 .. n) \cup {n + 1}
    BY <1>1
  <2> QED
    BY <1>1, <2>1 DEF Listed
<1>6. ASSUME NEW j \in 2 .. (n + 1), j # n + 1 PROVE NotBelow(m, g[j \div 2], g[j])
  <2>1. j \in 2 .. n /\ j \div 2 \in 1 .. n
    BY <1>1, <1>6, ParentOf
  <2> QED
    BY <1>1, <2>1 DEF IsHeap
<1>7. ASSUME NEW j \in 2 .. (n + 1) PROVE j \div 2 # n + 1
  BY <1>1, ParentOf
<1>8. Rising(m, g, n + 1)
  BY <1>1, <1>6, <1>7 DEF Rising
<1> QED
  BY <1>1, <1>3, <1>4, <1>5, <1>8 DEF g

(* A heap with k at the root. *)
NewRoot(h, k) == [h EXCEPT ![1] = k]

(* A new root sinks. *)
LEMMA NewRootSinks ==
    ASSUME NEW m, NEW D, NEW h \in Seq(D), h # <<>>, NEW k \in D, k \notin Listed(h),
           Distinct(h), IsHeap(m, h),
           NEW g, g = NewRoot(h, k)
    PROVE  /\ g \in Seq(D) /\ g # <<>> /\ Len(g) = Len(h)
           /\ Distinct(g) /\ Listed(g) = (Listed(h) \ {h[1]}) \cup {k}
           /\ Sinking(m, g, 1)
<1> DEFINE n == Len(h)
<1>1. n \in Nat /\ n # 0 /\ 1 \in 1 .. n
  BY LenProperties, EmptySeq
<1>2. /\ g \in Seq(D) /\ Len(g) = n /\ g[1] = k
      /\ \A i \in 2 .. n : g[i] = h[i]
  BY <1>1 DEF NewRoot
<1>3. \A i \in 1 .. n : h[i] # k
  BY DEF Listed
<1>4. g # <<>>
  BY <1>1, <1>2
<1>5. Distinct(g)
  <2>1. ASSUME NEW i \in 1 .. n, NEW j \in 1 .. n, g[i] = g[j] PROVE i = j
    <3>1. i = 1 \/ i \in 2 .. n
      BY <1>1
    <3>2. j = 1 \/ j \in 2 .. n
      BY <1>1
    <3> QED
      BY <1>1, <1>2, <1>3, <2>1, <3>1, <3>2 DEF Distinct
  <2> QED
    BY <1>2, <2>1 DEF Distinct
<1>6. Listed(g) = (Listed(h) \ {h[1]}) \cup {k}
  <2>1. 1 .. n = {1} \cup (2 .. n)
    BY <1>1
  <2>2. Listed(g) = {k} \cup {h[i] : i \in 2 .. n}
    BY <1>2, <2>1 DEF Listed
  <2>3. Listed(h) = {h[1]} \cup {h[i] : i \in 2 .. n}
    BY <2>1 DEF Listed
  <2>4. h[1] \notin {h[i] : i \in 2 .. n}
    BY <1>1, <2>1 DEF Distinct
  <2> QED
    BY <2>2, <2>3, <2>4
<1>7. ASSUME NEW j \in 2 .. n, j \div 2 # 1 PROVE NotBelow(m, g[j \div 2], g[j])
  <2>1. j \div 2 \in 2 .. n
    BY <1>1, <1>7, ParentOf
  <2> QED
    BY <1>2, <2>1 DEF IsHeap
<1>8. Sinking(m, g, 1)
  BY <1>1, <1>2, <1>7 DEF Sinking
<1> QED
  BY <1>2, <1>4, <1>5, <1>6, <1>8

(* The keys a heap holds stay the lowest when one more key is looked at.     *)
LEMMA ConsiderIs ==
    ASSUME NEW m, m \in [DOMAIN m -> [used : Nat, age : Nat]], NEW grace \in Nat,
           NEW count \in Nat \ {0},
           NEW seen \in SUBSET DOMAIN m, NEW k \in DOMAIN m \ seen,
           NEW h, Selected(m, h, seen, count, grace)
    PROVE  Selected(m, Consider(m, h, k, count, grace), seen \cup {k}, count, grace)
<1> DEFINE D == DOMAIN m
           E == {x \in seen : Eligible(m, grace, x)}
           F == {x \in seen \cup {k} : Eligible(m, grace, x)}
           next == Consider(m, h, k, count, grace)
<1>1. /\ h \in Seq(D) /\ Distinct(h) /\ Listed(h) \subseteq E /\ IsHeap(m, h)
      /\ Len(h) \in Nat /\ Len(h) <= count /\ (Len(h) < count => Listed(h) = E)
      /\ \A s \in Listed(h), x \in E \ Listed(h) : NotBelow(m, x, s)
      /\ k \notin Listed(h)
  BY LenProperties DEF Selected
<1>2. \A x \in F : m[x] \in Aged
  BY DEF Eligible, Aged
<1>3. CASE ~Eligible(m, grace, k)
  <2>1. F = E /\ next = h
    BY <1>3 DEF Consider
  <2> QED
    BY <2>1 DEF Selected
<1>4. CASE Eligible(m, grace, k)
  <2>0. F = E \cup {k} /\ k \notin E
    BY <1>4
  <2> HIDE DEF E, F
  <2>1. CASE Len(h) < count
    <3> DEFINE g == Append(h, k)
    <3>1. /\ g \in Seq(D) /\ g # <<>> /\ Len(g) = Len(h) + 1 /\ Distinct(g)
          /\ Listed(g) = F /\ Rising(m, g, Len(g))
      BY <1>1, <2>0, <2>1, AppendedRises
    <3>2. next = SiftUp(m, g)
      BY <1>4, <2>1 DEF Consider
    <3> HIDE DEF g
    <3>3. /\ SiftUp(m, g) \in Seq(D) /\ Len(SiftUp(m, g)) = Len(g)
          /\ Distinct(SiftUp(m, g)) /\ Listed(SiftUp(m, g)) = F /\ IsHeap(m, SiftUp(m, g))
      BY <1>2, <3>1, SiftUpIs
    <3>4. Len(SiftUp(m, g)) <= count
      BY <1>1, <2>1, <3>1, <3>3
    <3> QED
      BY <3>2, <3>3, <3>4 DEF Selected, F
  <2>2. CASE ~(Len(h) < count)
    <3>1. Len(h) = count /\ h # <<>> /\ 1 \in 1 .. Len(h) /\ h[1] \in Listed(h)
      BY <1>1, <2>2 DEF Listed
    <3>2. \A s \in Listed(h) : m[s] \in Aged /\ NotBelow(m, h[1], s)
      <4>1. \A s \in Listed(h) : m[s] \in Aged
        BY <1>1, <1>2, <2>0
      <4>2. \A j \in 1 .. Len(h) : NotBelow(m, h[1], h[j])
        BY <1>1, <4>1, RootIs
      <4> QED
        BY <4>1, <4>2 DEF Listed
    <3>3. CASE Lower(m[k], m[h[1]])
      <4> DEFINE g == NewRoot(h, k)
      <4>1. /\ g \in Seq(D) /\ g # <<>> /\ Len(g) = Len(h) /\ Distinct(g)
            /\ Listed(g) = (Listed(h) \ {h[1]}) \cup {k} /\ Sinking(m, g, 1)
        <5>1. g = NewRoot(h, k)
          OBVIOUS
        <5> HIDE DEF g
        <5> QED
          BY <1>1, <3>1, <5>1, NewRootSinks
      <4>2. next = SiftDown(m, g)
        BY <1>4, <2>2, <3>3 DEF Consider, NewRoot
      <4> HIDE DEF g
      <4>3. Listed(g) \subseteq F
        BY <1>1, <2>0, <4>1
      <4>4. /\ SiftDown(m, g) \in Seq(D) /\ Len(SiftDown(m, g)) = Len(g)
            /\ Distinct(SiftDown(m, g)) /\ Listed(SiftDown(m, g)) = Listed(g)
            /\ IsHeap(m, SiftDown(m, g))
        BY <1>2, <4>1, <4>3, SiftDownIs
      <4>5. ASSUME NEW s \in Listed(g), NEW x \in F \ Listed(g) PROVE NotBelow(m, x, s)
        <5>1. m[s] \in Aged /\ m[x] \in Aged /\ m[h[1]] \in Aged
          BY <1>2, <3>1, <3>2, <4>3
        <5>2. NotBelow(m, h[1], s)
          <6>1. CASE s = k
            BY <3>3, <5>1, <6>1, ScoreOrder DEF NotBelow
          <6>2. CASE s # k
            BY <3>2, <4>1, <6>2
          <6> QED
            BY <6>1, <6>2
        <5>3. NotBelow(m, x, h[1])
          <6>1. CASE x = h[1]
            BY <5>1, <6>1, ScoreOrder DEF NotBelow
          <6>2. CASE x # h[1]
            <7>1. x \in E \ Listed(h)
              BY <2>0, <4>1, <6>2
            <7> QED
              BY <1>1, <3>1, <7>1
          <6> QED
            BY <6>1, <6>2
        <5> QED
          BY <5>1, <5>2, <5>3, ScoreOrder DEF NotBelow
      <4>6. Len(SiftDown(m, g)) = count
        BY <3>1, <4>1, <4>4
      <4>7. Len(SiftDown(m, g)) <= count /\ ~(Len(SiftDown(m, g)) < count)
        BY <4>6
      <4> QED
        BY <4>2, <4>3, <4>4, <4>5, <4>7 DEF Selected, F
    <3>4. CASE ~Lower(m[k], m[h[1]])
      <4>1. next = h
        BY <1>4, <2>2, <3>4 DEF Consider
      <4>2. ASSUME NEW s \in Listed(h), NEW x \in F \ Listed(h) PROVE NotBelow(m, x, s)
        <5>1. CASE x = k
          <6>1. m[s] \in Aged /\ m[k] \in Aged /\ m[h[1]] \in Aged /\ NotBelow(m, h[1], s)
            BY <1>2, <2>0, <3>1, <3>2
          <6> QED
            BY <3>4, <5>1, <6>1, ScoreOrder DEF NotBelow
        <5>2. CASE x # k
          BY <1>1, <2>0, <4>2, <5>2
        <5> QED
          BY <5>1, <5>2
      <4>3. Listed(h) \subseteq F
        BY <1>1, <2>0
      <4> QED
        BY <1>1, <2>2, <4>1, <4>2, <4>3 DEF Selected, F
    <3> QED
      BY <3>3, <3>4
  <2> QED
    BY <2>1, <2>2
<1> QED
  BY <1>3, <1>4

-----------------------------------------------------------------------------
(* The candidates. *)

(* The candidates after each number of keys.                                 *)
IsFill(heap, m, order, count, grace) ==
    heap = [n \in 0 .. Len(order) |->
               IF n = 0 THEN <<>> ELSE Consider(m, heap[n - 1], order[n], count, grace)]

(* There is such a function up to any place in the order. *)
LEMMA FillExists ==
    ASSUME NEW m, NEW D, NEW order \in Seq(D), NEW count, NEW grace
    PROVE  \E heap : IsFill(heap, m, order, count, grace)
<1> DEFINE D0(f, n) == f = [i \in 0 .. n |->
               IF i = 0 THEN <<>> ELSE Consider(m, f[i - 1], order[i], count, grace)]
           T == {n \in Nat : ~ \E f : D0(f, n)}
<1>1. ASSUME T # {} PROVE FALSE
  <2>0. T \in SUBSET Nat
    OBVIOUS
  <2>1. PICK n \in T : \A o \in T : n <= o
    <3> HIDE DEF T
    <3> QED
      BY <1>1, <2>0, LeastOf
  <2>2. n \in Nat /\ ~ \E f : D0(f, n)
    OBVIOUS
  <2>3. n # 0
    <3>1. D0([i \in 0 .. 0 |-> <<>>], 0)
      OBVIOUS
    <3> QED
      BY <2>2, <3>1
  <2>4. n - 1 \in Nat /\ n - 1 \notin T
    <3> HIDE DEF T
    <3> QED
      BY <2>1, <2>2, <2>3
  <2>5. PICK f : D0(f, n - 1)
    BY <2>4
  <2> DEFINE g == [i \in 0 .. n |-> IF i < n THEN f[i]
                                    ELSE Consider(m, f[n - 1], order[n], count, grace)]
  <2>6. ASSUME NEW i \in 0 .. n
        PROVE  g[i] = IF i = 0 THEN <<>> ELSE Consider(m, g[i - 1], order[i], count, grace)
    <3>1. CASE i = 0
      BY <2>2, <2>3, <2>5, <3>1
    <3>2. CASE i \in 1 .. n - 1
      <4>1. f[i] = Consider(m, f[i - 1], order[i], count, grace)
        BY <2>2, <2>5, <3>2
      <4>2. g[i] = f[i] /\ g[i - 1] = f[i - 1]
        BY <2>2, <3>2
      <4> QED
        BY <3>2, <4>1, <4>2
    <3>3. CASE i = n
      BY <2>2, <2>3, <3>3
    <3> QED
      BY <2>2, <3>1, <3>2, <3>3
  <2>7. D0(g, n)
    BY <2>6
  <2> QED
    BY <2>2, <2>7
<1>2. Len(order) \in Nat
  BY LenProperties
<1>3. PICK f : D0(f, Len(order))
  BY <1>1, <1>2
<1> QED
  BY <1>3 DEF IsFill

(* A list of distinct keys is as long as they are many.                      *)
LEMMA DistinctCardinality ==
    ASSUME NEW D, NEW h \in Seq(D), Distinct(h)
    PROVE  IsFiniteSet(Listed(h)) /\ Cardinality(Listed(h)) = Len(h)
<1>1. Len(h) \in Nat
  BY LenProperties
<1> DEFINE f == [i \in 1 .. Len(h) |-> h[i]]
<1>2. f \in Bijection(1 .. Len(h), Listed(h))
  BY DEF Bijection, Injection, Surjection, IsInjective, Distinct, Listed
<1>3. IsFiniteSet(1 .. Len(h)) /\ Cardinality(1 .. Len(h)) = Len(h)
  BY <1>1, FS_Interval
<1>4. ExistsBijection(1 .. Len(h), Listed(h))
  BY <1>2 DEF ExistsBijection
<1> QED
  BY <1>3, <1>4, FS_Bijection

(* The first n keys of a list, as a set. *)
First(order, n) == {order[i] : i \in 1 .. n}

(* The keys in each state of the fill are the lowest so far: by the least    *)
(* number of keys after which not.                                           *)
LEMMA FillSelects ==
    ASSUME NEW m, m \in [DOMAIN m -> [used : Nat, age : Nat]], NEW grace \in Nat,
           NEW count \in Nat \ {0},
           NEW order \in Seq(DOMAIN m), Distinct(order),
           NEW heap, IsFill(heap, m, order, count, grace), NEW n \in 0 .. Len(order)
    PROVE  Selected(m, heap[n], First(order, n), count, grace)
<1> DEFINE T == {j \in 0 .. Len(order) : ~Selected(m, heap[j], First(order, j), count, grace)}
<1>1. Len(order) \in Nat
  BY LenProperties
<1>2. ASSUME T # {} PROVE FALSE
  <2>0. T \in SUBSET Nat
    BY <1>1
  <2>1. PICK j \in T : \A o \in T : j <= o
    <3> HIDE DEF T
    <3> QED
      BY <1>2, <2>0, LeastOf
  <2>2. j \in 0 .. Len(order) /\ ~Selected(m, heap[j], First(order, j), count, grace)
    OBVIOUS
  <2>3. CASE j = 0
    <3>1. heap[0] = <<>> /\ First(order, 0) = {}
      BY <1>1 DEF IsFill, First
    <3>2. Selected(m, <<>>, {}, count, grace)
      BY DEF Selected, Distinct, Listed, IsHeap
    <3> QED
      BY <2>2, <2>3, <3>1, <3>2
  <2>4. CASE j # 0
    <3>1. j \in 1 .. Len(order) /\ j - 1 \in 0 .. Len(order)
      BY <1>1, <2>2, <2>4
    <3>2. Selected(m, heap[j - 1], First(order, j - 1), count, grace)
      <4>1. j - 1 \notin T
        <5> HIDE DEF T
        <5> QED
          BY <1>1, <2>0, <2>1, <3>1
      <4> QED
        BY <3>1, <4>1
    <3>3. heap[j] = Consider(m, heap[j - 1], order[j], count, grace)
      <4>1. \A i \in 0 .. Len(order) :
               heap[i] = IF i = 0 THEN <<>> ELSE Consider(m, heap[i - 1], order[i], count, grace)
        BY DEF IsFill
      <4> QED
        BY <2>2, <2>4, <4>1
    <3>4. /\ First(order, j - 1) \in SUBSET DOMAIN m
          /\ order[j] \in DOMAIN m \ First(order, j - 1)
          /\ First(order, j) = First(order, j - 1) \cup {order[j]}
      <4>1. \A i \in 1 .. Len(order) : order[i] \in DOMAIN m
        BY ElementOfSeq
      <4>2. 1 .. j = (1 .. (j - 1)) \cup {j} /\ 1 .. (j - 1) \subseteq 1 .. Len(order)
        BY <1>1, <3>1
      <4>3. ASSUME NEW i \in 1 .. (j - 1) PROVE i # j /\ i \in 1 .. Len(order)
        <5>1. Len(order) \in Nat /\ j \in Nat /\ j <= Len(order) /\ i \in Nat
          BY <1>1, <3>1
        <5> QED
          BY <5>1
      <4>4. order[j] \notin First(order, j - 1)
        <5>1. \A a, b \in 1 .. Len(order) : order[a] = order[b] => a = b
          BY DEF Distinct
        <5>2. \A i \in 1 .. (j - 1) : order[i] # order[j]
          BY <3>1, <4>3, <5>1
        <5> QED
          BY <5>2 DEF First
      <4> QED
        BY <3>1, <4>1, <4>2, <4>4 DEF First
    <3>5. Selected(m, heap[j], First(order, j), count, grace)
      <4> DEFINE k == order[j]
                 h == heap[j - 1]
                 seen == First(order, j - 1)
      <4>1. /\ Selected(m, h, seen, count, grace)
            /\ seen \in SUBSET DOMAIN m /\ k \in DOMAIN m \ seen
        BY <3>2, <3>4
      <4>2. heap[j] = Consider(m, h, k, count, grace) /\ First(order, j) = seen \cup {k}
        BY <3>3, <3>4
      <4> HIDE DEF k, h, seen
      <4>3. Selected(m, Consider(m, h, k, count, grace), seen \cup {k}, count, grace)
        BY <4>1, ConsiderIs
      <4> QED
        BY <4>2, <4>3
    <3> QED
      BY <2>2, <3>5
  <2> QED
    BY <2>3, <2>4
<1> QED
  BY <1>2

(* The candidates of the LFU index are as many keys as asked for, if that    *)
(* many are old enough, each once, and no key with a lower score is left     *)
(* out: evictionCandidates of lfu-eviction-index.ts, for any keys and their  *)
(* metadata, any order of insertion, count and grace period.                 *)
THEOREM LfuLowest ==
    ASSUME NEW m, m \in [DOMAIN m -> [used : Nat, age : Nat]], IsFiniteSet(DOMAIN m),
           NEW order \in Seq(DOMAIN m), Distinct(order), Listed(order) = DOMAIN m,
           NEW count \in Int, NEW grace \in Nat,
           NEW keys, keys = LfuCandidates(m, order, count, grace)
    PROVE  keys \in Seq(DOMAIN m) /\ Distinct(keys) /\ LowestScores(Listed(keys), m, count, grace)
<1> DEFINE E == {k \in DOMAIN m : Eligible(m, grace, k)}
<1>1. CASE count <= 0
  <2>1. keys = <<>>
    BY <1>1 DEF LfuCandidates
  <2>2. keys \in Seq(DOMAIN m) /\ Listed(keys) = {} /\ Distinct(keys)
    BY <2>1 DEF Listed, Distinct
  <2>3. Cardinality(Listed(keys)) = 0
    BY <2>2, FS_EmptySet
  <2> QED
    BY <1>1, <2>2, <2>3 DEF LowestScores
<1>2. CASE ~(count <= 0)
  <2> DEFINE heap == CHOOSE heap : IsFill(heap, m, order, count, grace)
  <2>1. IsFill(heap, m, order, count, grace)
    BY FillExists
  <2>2. keys = heap[Len(order)]
    BY <1>2 DEF LfuCandidates, IsFill
  <2> HIDE DEF heap
  <2>3. count \in Nat \ {0} /\ Len(order) \in 0 .. Len(order)
    BY <1>2, LenProperties
  <2>4. Selected(m, keys, DOMAIN m, count, grace)
    <3>1. Selected(m, heap[Len(order)], First(order, Len(order)), count, grace)
      BY <2>1, <2>3, FillSelects
    <3> QED
      BY <2>2, <3>1 DEF Listed, First
  <2>5. /\ keys \in Seq(DOMAIN m) /\ Distinct(keys) /\ Listed(keys) \subseteq E
        /\ Len(keys) \in Nat /\ Len(keys) <= count /\ (Len(keys) < count => Listed(keys) = E)
        /\ \A s \in Listed(keys), k \in E \ Listed(keys) : NotBelow(m, k, s)
    BY <2>4, LenProperties DEF Selected
  <2>6. Cardinality(Listed(keys)) = Len(keys)
    BY <2>5, DistinctCardinality
  <2>7. IsFiniteSet(E)
    BY FS_Subset
  <2> HIDE DEF E
  <2>8. Cardinality(E) \in Nat /\ Len(keys) <= Cardinality(E)
    BY <2>5, <2>6, <2>7, FS_Subset, FS_CardinalityType
  <2>9. Cardinality(Listed(keys)) = IF count < Cardinality(E) THEN count ELSE Cardinality(E)
    <3>1. CASE Len(keys) < count
      BY <2>3, <2>5, <2>6, <2>8, <3>1
    <3>2. CASE ~(Len(keys) < count)
      BY <2>3, <2>5, <2>6, <2>8, <3>2
    <3> QED
      BY <3>1, <3>2
  <2>10. \A s \in Listed(keys), k \in E \ Listed(keys) : ~Lower(m[k], m[s])
    BY <2>5 DEF NotBelow
  <2> QED
    BY <1>2, <2>5, <2>9, <2>10 DEF LowestScores, E
<1> QED
  BY <1>1, <1>2
=============================================================================
