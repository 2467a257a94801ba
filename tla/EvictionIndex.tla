---------------------------- MODULE EvictionIndex ----------------------------
(***************************************************************************)
(* The eviction indexes of the cache, packages/core/cache/eviction: which  *)
(* entries it deletes first.  LruEvictionIndex keeps its keys in a doubly  *)
(* linked list, FifoEvictionIndex and LfuEvictionIndex in a Map.  An index *)
(* here is the record of its links for all three: a Map is the list of its *)
(* keys in the order of their insertion.                                   *)
(*                                                                         *)
(* LfuEvictionIndex selects the keys with the lowest scores with a bounded *)
(* heap, LfuCandidates below; a score is uses per age.                     *)
(***************************************************************************)
EXTENDS Integers, Sequences, FiniteSets

CONSTANTS
    Keys,   \* the keys of the entries
    NoKey   \* no key: the end of the list in either direction

ASSUME EvictionIndexAssumption == IsFiniteSet(Keys) /\ NoKey \notin Keys

Strategies == {"LRU", "FIFO", "LFU"}

Links == [Keys -> Keys \cup {NoKey}]

Index == [nodes : SUBSET Keys, head : Keys \cup {NoKey}, tail : Keys \cup {NoKey},
          prev : Links, next : Links]

EmptyIndex ==
    [nodes |-> {}, head |-> NoKey, tail |-> NoKey,
     prev |-> [k \in Keys |-> NoKey], next |-> [k \in Keys |-> NoKey]]

-----------------------------------------------------------------------------
(* The linked list.  The definitions that end in a comment "mutant" are      *)
(* wrong on purpose: a property fails with one in place of the definition    *)
(* after it.                                                                 *)

PrependToHead(l, k) ==   \* mutant: at the end evicted first
    [nodes |-> l.nodes \cup {k},
     head  |-> k,
     tail  |-> IF l.tail = NoKey THEN k ELSE l.tail,
     prev  |-> [n \in Keys |-> IF n = k THEN NoKey
                               ELSE IF n = l.head THEN k ELSE l.prev[n]],
     next  |-> [l.next EXCEPT ![k] = l.head]]

AppendToTail(l, k) ==
    [nodes |-> l.nodes \cup {k},
     head  |-> IF l.tail = NoKey THEN k ELSE l.head,
     tail  |-> k,
     prev  |-> [l.prev EXCEPT ![k] = l.tail],
     next  |-> [n \in Keys |-> IF n = k THEN NoKey
                               ELSE IF n = l.tail THEN k ELSE l.next[n]]]

Detach(l, k) ==
    LET p == l.prev[k]
        n == l.next[k]
    IN  [nodes |-> l.nodes \ {k},
         head  |-> IF p = NoKey THEN n ELSE l.head,
         tail  |-> IF n = NoKey THEN p ELSE l.tail,
         prev  |-> [m \in Keys |-> IF m = k THEN NoKey ELSE IF m = n THEN p
                               ELSE l.prev[m]],
         next  |-> [m \in Keys |-> IF m = k THEN NoKey ELSE IF m = p THEN n
                               ELSE l.next[m]]]

Remove(l, k) == IF k \in l.nodes THEN Detach(l, k) ELSE l

(* A Map keeps the place of a key that is set again. *)
Insert(l, k) == IF k \in l.nodes THEN l ELSE AppendToTail(l, k)

Add(strategy, l, k) ==
    IF strategy = "LRU" THEN AppendToTail(Remove(l, k), k) ELSE Insert(l, k)

(* The touch of a key that is not in the index adds it to that of LFU only. *)
Touch(strategy, l, k) ==
    CASE strategy = "LRU"  -> IF k \in l.nodes THEN AppendToTail(Detach(l, k), k) ELSE l
      [] strategy = "FIFO" -> l
      [] strategy = "LFU"  -> Insert(l, k)

(* The first n keys from the head. *)
FromHead(l, n) ==
    LET found[i \in 0 .. n] ==
            IF i = 0 THEN <<>>
            ELSE LET keys == found[i - 1]
                     at   == IF keys = <<>> THEN l.head ELSE l.next[keys[Len(keys)]]
                 IN  IF at = NoKey THEN keys ELSE Append(keys, at)
    IN  found[n]

(* The index without the keys of S. *)
RemoveAll(l, S) ==
    LET order == FromHead(l, Cardinality(Keys))
        drop[i \in 0 .. Len(order)] ==
            IF i = 0 THEN l
            ELSE LET rest == drop[i - 1] IN IF order[i] \in S THEN Remove(rest, order[i]) ELSE rest
    IN  IF S = {} THEN l ELSE drop[Len(order)]

-----------------------------------------------------------------------------
(* The heap of LfuEvictionIndex, over keys whose metadata m gives their uses *)
(* and their age.  The heap is a sequence: the parent of i is i \div 2.      *)

Lower(a, b) == (a.used + 1) * b.age < (b.used + 1) * a.age

(* A heap as long as the given one, and a place in it. *)
Places(m, heap) == [1 .. Len(heap) -> DOMAIN m] \X (1 .. Len(heap))

(* The keys at the place and at j are exchanged, j is the next place. *)
Swap(x, j) == <<[x[1] EXCEPT ![x[2]] = x[1][j], ![j] = x[1][x[2]]], j>>

SiftUp(m, heap) ==
    LET up[x \in Places(m, heap)] ==
            LET h == x[1]
                i == x[2]
            IN  IF i > 1 /\ Lower(m[h[i \div 2]], m[h[i]]) THEN up[Swap(x, i \div 2)] ELSE h
    IN  up[<<heap, Len(heap)>>]

LargestOfLeft(m, h, i) ==   \* mutant: does not look at the right child
    IF 2 * i <= Len(h) /\ Lower(m[h[i]], m[h[2 * i]]) THEN 2 * i ELSE i

(* Where the highest score is, of i and its children. *)
Largest(m, h, i) ==
    LET left == IF 2 * i <= Len(h) /\ Lower(m[h[i]], m[h[2 * i]]) THEN 2 * i ELSE i
    IN  IF 2 * i + 1 <= Len(h) /\ Lower(m[h[left]], m[h[2 * i + 1]]) THEN 2 * i + 1 ELSE left

SiftDown(m, heap) ==
    LET down[x \in Places(m, heap)] ==
            LET largest == Largest(m, x[1], x[2])
            IN  IF largest = x[2] THEN x[1] ELSE down[Swap(x, largest)]
    IN  down[<<heap, 1>>]

Eligible(m, grace, k) == grace < m[k].age

(* One more key is looked at, when h are the candidates until then. *)
Consider(m, h, k, count, grace) ==
    IF ~Eligible(m, grace, k) THEN h
    ELSE IF Len(h) < count THEN SiftUp(m, Append(h, k))
    ELSE IF Lower(m[k], m[h[1]]) THEN SiftDown(m, [h EXCEPT ![1] = k])
    ELSE h

(* The candidates among the keys of order, the order of their insertion. *)
LfuCandidates(m, order, count, grace) ==
    LET heap[n \in 0 .. Len(order)] ==
            IF n = 0 THEN <<>> ELSE Consider(m, heap[n - 1], order[n], count, grace)
    IN  IF count <= 0 THEN <<>> ELSE heap[Len(order)]

(* Whether S is what the candidates have to be: as many of the eligible keys *)
(* as asked for, none of which has a higher score than a key left out.       *)
LowestScores(S, m, count, grace) ==
    LET eligible == {k \in DOMAIN m : Eligible(m, grace, k)}
    IN  /\ S \subseteq eligible
        /\ Cardinality(S) = IF count <= 0 THEN 0
                            ELSE IF count < Cardinality(eligible) THEN count
                            ELSE Cardinality(eligible)
        /\ \A s \in S, k \in eligible \ S : ~Lower(m[k], m[s])
=============================================================================
