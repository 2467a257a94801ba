---------------------------- MODULE EvictionOrder ----------------------------
(***************************************************************************)
(* What an eviction index promises: it holds its keys in an order, the     *)
(* next to evict first.  A step takes some keys out of it, which leaves    *)
(* the order of the others alone, and may put one key at its end.          *)
(***************************************************************************)
EXTENDS Integers, Sequences

CONSTANT Keys

VARIABLE order

Init == order = <<>>

(* The keys are some of those before, in the same order. *)
Thins(before, after) ==
    /\ \A i \in DOMAIN after : \E j \in DOMAIN before : after[i] = before[j]
    /\ \A i, j \in DOMAIN after : i < j =>
          \E m, n \in DOMAIN before : m < n /\ before[m] = after[i] /\ before[n] = after[j]

(* As Thins, but for the last key, which the others do not repeat. *)
PutsLast(before, after) ==
    LET last == Len(after)
        kept == SubSeq(after, 1, last - 1)
    IN  /\ last > 0
        /\ Thins(before, kept)
        /\ after[last] \in Keys \ {kept[i] : i \in DOMAIN kept}

Follows(before, after) == Thins(before, after) \/ PutsLast(before, after)

(* Bound, so that TLC evaluates each order once. *)
Step == \E before \in {order}, after \in {order'} : Follows(before, after)

Spec == Init /\ [][Step]_order
=============================================================================
