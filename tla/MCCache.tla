------------------------------- MODULE MCCache -------------------------------
(* Values of the constants for TLC, and the heap of the LFU index over every *)
(* metadata of five keys with small counts and ages.                         *)
EXTENDS Cache, TLC

MCPatterns == {Keys}

MCSymmetry == Permutations(Keys) \cup Permutations(Calls)

HeapKeys == 1 .. 5
HeapMetas == [HeapKeys -> [used : 0 .. 1, age : 0 .. 3]]

HeapSelects ==
    \A m \in HeapMetas, count \in 0 .. 3, grace \in 0 .. 1 :
        LET keys == LfuCandidates(m, [i \in HeapKeys |-> i], count, grace)
            S    == {keys[i] : i \in DOMAIN keys}
        IN  Len(keys) = Cardinality(S) /\ LowestScores(S, m, count, grace)

(* Where the cache uses it, LfuEvictionIndex.evictionCandidates returns as   *)
(* many keys as asked for, if there are, each once, whose scores no key left *)
(* out is below.                                                             *)
LfuSelectsLowest == strategy = "LFU" => HeapSelects
=============================================================================
