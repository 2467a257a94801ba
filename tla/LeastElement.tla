----------------------------- MODULE LeastElement -----------------------------
(*****************************************************************************)
(* A set of natural numbers has a least element.  Proofs by induction over   *)
(* numbers take the least counterexample: what a recursive function is for   *)
(* every argument is proved in this way; here, what the sums over finite     *)
(* sets of the community modules are.                                        *)
(*****************************************************************************)
EXTENDS Integers, FiniteSetsExt, FiniteSetTheorems, WellFoundedInduction, TLAPS

(* Any set of natural numbers but the empty one has a least element.         *)
LEMMA LeastOf ==
    ASSUME NEW T \in SUBSET Nat, T # {} PROVE \E n \in T : \A m \in T : n <= m
<1> DEFINE R == OpToRel(<, Nat)
<1>1. IsWellFoundedOn(R, Nat)
  BY NatLessThanWellFounded
<1>2. \A m, n \in Nat : m < n => <<m, n>> \in R
  BY DEF OpToRel
<1> HIDE DEF R
<1>3. PICK n \in T : \A m \in T : ~(<<m, n>> \in R)
  BY <1>1, WFMin
<1>4. ASSUME NEW m \in T PROVE n <= m
  <2>1. n \in Nat /\ m \in Nat /\ ~(m < n)
    BY <1>2, <1>3
  <2> QED
    BY <2>1
<1> QED
  BY <1>4

-----------------------------------------------------------------------------
(* What SumFunctionOnSet defines the sums over the subsets of S to be.       *)
IsSum(g, f, S) ==
    g = [s \in SUBSET S |->
           IF s = {} THEN 0
           ELSE f[CHOOSE x \in s : TRUE] + g[s \ {CHOOSE x \in s : TRUE}]]

LEMMA SumIs ==
    ASSUME NEW f, NEW S PROVE SumFunctionOnSet(f, S) = (CHOOSE g : IsSum(g, f, S))[S]
BY DEF SumFunctionOnSet, FoldFunctionOnSet, MapThenFoldSet, IsSum

(* There are such sums: by the least size of subsets for which not.          *)
LEMMA SumExists ==
    ASSUME NEW f, NEW S, IsFiniteSet(S) PROVE \E g : IsSum(g, f, S)
<1> DEFINE Small(n) == {s \in SUBSET S : Cardinality(s) <= n}
           Pick(s) == CHOOSE x \in s : TRUE
           D(g, n) == g = [s \in Small(n) |->
                             IF s = {} THEN 0 ELSE f[Pick(s)] + g[s \ {Pick(s)}]]
           T == {n \in Nat : ~ \E g : D(g, n)}
<1>1. ASSUME NEW s \in SUBSET S
      PROVE  /\ Cardinality(s) \in Nat /\ (Cardinality(s) = 0 <=> s = {})
             /\ s # {} => /\ s \ {Pick(s)} \in SUBSET S
                          /\ Cardinality(s \ {Pick(s)}) = Cardinality(s) - 1
  <2>1. IsFiniteSet(s)
    BY FS_Subset
  <2>2. s # {} => Pick(s) \in s
    OBVIOUS
  <2> HIDE DEF Pick
  <2> QED
    BY <2>1, <2>2, FS_CardinalityType, FS_EmptySet, FS_RemoveElement
<1> HIDE DEF Pick
<1>2. ASSUME T # {} PROVE FALSE
  <2>0. T \in SUBSET Nat
    OBVIOUS
  <2>1. PICK n \in T : \A m \in T : n <= m
    <3> HIDE DEF T
    <3> QED
      BY <1>2, <2>0, LeastOf
  <2>2. n \in Nat /\ ~ \E g : D(g, n)
    OBVIOUS
  <2>3. n # 0
    <3>1. ASSUME NEW s \in Small(0) PROVE s = {}
      <4>1. s \in SUBSET S /\ Cardinality(s) <= 0
        OBVIOUS
      <4>2. Cardinality(s) \in Nat /\ (Cardinality(s) = 0 => s = {})
        <5> HIDE DEF Small
        <5> QED
          BY <1>1, <4>1
      <4>3. Cardinality(s) = 0
        BY <4>1, <4>2
      <4> QED
        BY <4>2, <4>3
    <3>2. D([s \in Small(0) |-> 0], 0)
      BY <3>1
    <3> QED
      BY <2>2, <3>2
  <2>4. n - 1 \in Nat /\ n - 1 \notin T
    <3> HIDE DEF T
    <3> QED
      BY <2>1, <2>2, <2>3
  <2>5. PICK g : D(g, n - 1)
    BY <2>4
  <2> DEFINE h == [s \in Small(n) |->
                     IF Cardinality(s) <= n - 1 THEN g[s]
                     ELSE f[Pick(s)] + g[s \ {Pick(s)}]]
  <2>6. ASSUME NEW s \in Small(n)
        PROVE  h[s] = IF s = {} THEN 0 ELSE f[Pick(s)] + h[s \ {Pick(s)}]
    <3>1. s \in SUBSET S /\ Cardinality(s) \in Nat /\ Cardinality(s) <= n
      BY <1>1
    <3>2. s # {} => /\ s \ {Pick(s)} \in Small(n) /\ s \ {Pick(s)} \in Small(n - 1)
                    /\ Cardinality(s \ {Pick(s)}) <= n - 1
      BY <1>1, <2>2, <3>1
    <3>3. CASE Cardinality(s) <= n - 1
      <4>1. h[s] = g[s] /\ s \in Small(n - 1)
        BY <3>1, <3>3
      <4>2. g[s] = IF s = {} THEN 0 ELSE f[Pick(s)] + g[s \ {Pick(s)}]
        <5> HIDE DEF Small
        <5> QED
          BY <2>5, <4>1
      <4>3. s # {} => h[s \ {Pick(s)}] = g[s \ {Pick(s)}]
        <5> HIDE DEF Small
        <5> QED
          BY <3>2
      <4> QED
        BY <4>1, <4>2, <4>3
    <3>4. CASE ~(Cardinality(s) <= n - 1)
      <4>1. s # {}
        BY <1>1, <2>2, <2>3, <3>1, <3>4
      <4>2. h[s] = f[Pick(s)] + g[s \ {Pick(s)}]
        BY <3>4
      <4>3. h[s \ {Pick(s)}] = g[s \ {Pick(s)}]
        <5> HIDE DEF Small
        <5> QED
          BY <3>2, <4>1
      <4> QED
        BY <4>1, <4>2, <4>3
    <3> QED
      BY <3>3, <3>4
  <2>7. D(h, n)
    BY <2>6
  <2> QED
    BY <2>2, <2>7
<1>3. Cardinality(S) \in Nat
  BY FS_CardinalityType
<1>4. PICK g : D(g, Cardinality(S))
  BY <1>2, <1>3
<1>5. Small(Cardinality(S)) = SUBSET S
  BY FS_Subset
<1> QED
  BY <1>4, <1>5 DEF IsSum, Pick

(* Over a subset, all of them are the same: by the least size for which not. *)
LEMMA SumUnique ==
    ASSUME NEW f, NEW S, IsFiniteSet(S), NEW g, IsSum(g, f, S),
           NEW R \in SUBSET S, NEW h, IsSum(h, f, R)
    PROVE  g[R] = h[R]
<1> DEFINE Pick(s) == CHOOSE x \in s : TRUE
           Differ == {s \in SUBSET R : g[s] # h[s]}
           T == {Cardinality(s) : s \in Differ}
<1>0. ASSUME NEW s \in SUBSET R
      PROVE  /\ g[s] = IF s = {} THEN 0 ELSE f[Pick(s)] + g[s \ {Pick(s)}]
             /\ h[s] = IF s = {} THEN 0 ELSE f[Pick(s)] + h[s \ {Pick(s)}]
  BY DEF IsSum
<1>1. ASSUME NEW s \in SUBSET R
      PROVE  /\ Cardinality(s) \in Nat
             /\ s # {} => /\ s \ {Pick(s)} \in SUBSET R
                          /\ Cardinality(s \ {Pick(s)}) = Cardinality(s) - 1
  <2>1. IsFiniteSet(s)
    BY FS_Subset
  <2>2. s # {} => Pick(s) \in s
    OBVIOUS
  <2> HIDE DEF Pick
  <2> QED
    BY <2>1, <2>2, FS_CardinalityType, FS_RemoveElement
<1> HIDE DEF Pick
<1>2. ASSUME Differ # {} PROVE FALSE
  <2>1. T \in SUBSET Nat /\ T # {}
    BY <1>1, <1>2
  <2>2. PICK n \in T : \A m \in T : n <= m
    <3> HIDE DEF T
    <3> QED
      BY <2>1, LeastOf
  <2>3. PICK s \in Differ : n = Cardinality(s)
    OBVIOUS
  <2>4. s # {}
    BY <1>0
  <2>5. s \ {Pick(s)} \in SUBSET R /\ Cardinality(s \ {Pick(s)}) = n - 1 /\ n \in Nat
    BY <1>1, <2>3, <2>4
  <2>6. s \ {Pick(s)} \notin Differ
    <3>1. n - 1 \notin T
      <4> HIDE DEF T
      <4> QED
        BY <2>2, <2>5
    <3> QED
      BY <2>5, <3>1
  <2> QED
    BY <1>0, <2>4, <2>5, <2>6
<1> QED
  BY <1>2

(* A sum is that of an element and of the others: first of the one chosen.   *)
LEMMA SumChosen ==
    ASSUME NEW f, NEW S, IsFiniteSet(S)
    PROVE  SumFunctionOnSet(f, S) =
             IF S = {} THEN 0
             ELSE f[CHOOSE x \in S : TRUE] + SumFunctionOnSet(f, S \ {CHOOSE x \in S : TRUE})
<1> DEFINE Pick == CHOOSE x \in S : TRUE
           R == S \ {Pick}
           g == CHOOSE g : IsSum(g, f, S)
           h == CHOOSE h : IsSum(h, f, R)
<1>1. IsFiniteSet(R) /\ R \in SUBSET S
  BY FS_Difference
<1>2. IsSum(g, f, S)
  BY SumExists
<1>3. IsSum(h, f, R)
  <2> HIDE DEF R
  <2> QED
    BY <1>1, SumExists
<1>4. g[S] = IF S = {} THEN 0 ELSE f[Pick] + g[R]
  <2> HIDE DEF g
  <2> QED
    BY <1>2 DEF IsSum
<1>5. g[R] = h[R]
  <2> HIDE DEF g, h, R
  <2> QED
    BY <1>1, <1>2, <1>3, SumUnique
<1>6. SumFunctionOnSet(f, S) = g[S] /\ SumFunctionOnSet(f, R) = h[R]
  BY SumIs
<1> HIDE DEF g, h
<1> QED
  BY <1>4, <1>5, <1>6

(* And of any other.                                                         *)
LEMMA SumElement ==
    ASSUME NEW f, NEW S, IsFiniteSet(S), \A x \in S : f[x] \in Nat
    PROVE  /\ SumFunctionOnSet(f, S) \in Nat
           /\ \A x \in S : SumFunctionOnSet(f, S) = f[x] + SumFunctionOnSet(f, S \ {x})
<1> DEFINE Sum(R) == SumFunctionOnSet(f, R)
           Good(R) == Sum(R) \in Nat /\ \A x \in R : Sum(R) = f[x] + Sum(R \ {x})
           Bad == {R \in SUBSET S : ~Good(R)}
           T == {Cardinality(R) : R \in Bad}
<1>1. ASSUME NEW R \in SUBSET S
      PROVE  /\ Cardinality(R) \in Nat
             /\ \A x \in R : R \ {x} \in SUBSET S /\ Cardinality(R \ {x}) = Cardinality(R) - 1
             /\ Sum(R) = IF R = {} THEN 0
                         ELSE f[CHOOSE x \in R : TRUE] + Sum(R \ {CHOOSE x \in R : TRUE})
  <2>1. IsFiniteSet(R)
    BY FS_Subset
  <2>2. Sum(R) = IF R = {} THEN 0
                 ELSE f[CHOOSE x \in R : TRUE] + Sum(R \ {CHOOSE x \in R : TRUE})
    BY <2>1, SumChosen
  <2> HIDE DEF Sum
  <2> QED
    BY <2>1, <2>2, FS_CardinalityType, FS_RemoveElement
<1> HIDE DEF Sum
<1>2. ASSUME Bad # {} PROVE FALSE
  <2>1. T \in SUBSET Nat /\ T # {}
    <3>1. \A R \in SUBSET S : Cardinality(R) \in Nat
      BY <1>1
    <3>2. Bad \subseteq SUBSET S
      OBVIOUS
    <3> HIDE DEF Bad
    <3> QED
      BY <1>2, <3>1, <3>2
  <2>2. PICK n \in T : \A m \in T : n <= m
    <3> HIDE DEF T
    <3> QED
      BY <2>1, LeastOf
  <2>3. PICK R \in Bad : n = Cardinality(R)
    OBVIOUS
  <2>4. R \in SUBSET S /\ ~Good(R) /\ n \in Nat
    BY <1>1, <2>3
  <2>5. ASSUME NEW Q \in SUBSET S, Cardinality(Q) < n PROVE Good(Q)
    <3>1. Cardinality(Q) \notin T
      <4>1. Cardinality(Q) \in Nat
        BY <1>1
      <4> HIDE DEF T
      <4> QED
        BY <2>2, <2>4, <2>5, <4>1
    <3> QED
      BY <3>1
  <2>6. R # {}
    <3>1. ASSUME R = {} PROVE Sum(R) \in Nat
      <4>1. Sum(R) = 0
        BY <1>1, <2>4, <3>1
      <4> QED
        BY <4>1
    <3> QED
      BY <2>4, <3>1
  <2>7. PICK c \in R : Sum(R) = f[c] + Sum(R \ {c})
    <3>1. (CHOOSE x \in R : TRUE) \in R
      BY <2>6
    <3> QED
      BY <1>1, <2>4, <2>6, <3>1
  <2>8. ASSUME NEW x \in R PROVE Good(R \ {x})
    <3>1. R \ {x} \in SUBSET S /\ Cardinality(R \ {x}) = n - 1
      <4> HIDE DEF Good, Bad, T
      <4> QED
        BY <1>1, <2>3, <2>4
    <3>2. Cardinality(R \ {x}) < n
      BY <2>4, <3>1
    <3> HIDE DEF Good
    <3> QED
      BY <2>5, <3>1, <3>2
  <2>9. Sum(R) \in Nat
    BY <2>4, <2>7, <2>8
  <2>10. ASSUME NEW x \in R PROVE Sum(R) = f[x] + Sum(R \ {x})
    <3>1. CASE x = c
      BY <2>7, <3>1
    <3>2. CASE x # c
      <4>1. Sum(R \ {c}) = f[x] + Sum((R \ {c}) \ {x})
        BY <2>8, <3>2
      <4>2. Sum(R \ {x}) = f[c] + Sum((R \ {x}) \ {c})
        BY <2>8, <3>2
      <4>3. (R \ {c}) \ {x} = (R \ {x}) \ {c}
        OBVIOUS
      <4>4. Sum((R \ {x}) \ {c}) \in Nat
        <5>1. (R \ {x}) \ {c} \in SUBSET S
          BY <2>4
        <5>2. Cardinality((R \ {x}) \ {c}) < n
          <6>1. c \in R \ {x} /\ R \ {x} \in SUBSET S /\ Cardinality(R \ {x}) = n - 1
            BY <1>1, <2>3, <2>4, <3>2
          <6>2. Cardinality((R \ {x}) \ {c}) = (n - 1) - 1
            BY <1>1, <6>1
          <6> QED
            BY <2>4, <6>2
        <5> QED
          BY <2>5, <5>1, <5>2
      <4>5. f[x] \in Nat /\ f[c] \in Nat
        BY <2>4
      <4>6. Sum(R) = f[c] + (f[x] + Sum((R \ {x}) \ {c}))
        BY <2>7, <4>1, <4>3
      <4> QED
        BY <4>2, <4>4, <4>5, <4>6
    <3> QED
      BY <3>1, <3>2
  <2> QED
    BY <2>4, <2>9, <2>10
<1>3. Good(S)
  BY <1>2
<1> QED
  BY <1>3 DEF Sum

(* A sum depends on the values at its elements.                              *)
LEMMA SumSame ==
    ASSUME NEW f, NEW g, NEW S, IsFiniteSet(S), \A x \in S : f[x] \in Nat /\ g[x] = f[x]
    PROVE  SumFunctionOnSet(g, S) = SumFunctionOnSet(f, S)
<1> DEFINE F(R) == SumFunctionOnSet(f, R)
           G(R) == SumFunctionOnSet(g, R)
           Bad == {R \in SUBSET S : F(R) # G(R)}
           T == {Cardinality(R) : R \in Bad}
<1>1. ASSUME NEW R \in SUBSET S
      PROVE  /\ Cardinality(R) \in Nat
             /\ \A x \in R : R \ {x} \in SUBSET S /\ Cardinality(R \ {x}) = Cardinality(R) - 1
             /\ R = {} => F(R) = 0 /\ G(R) = 0
             /\ \A x \in R : F(R) = f[x] + F(R \ {x}) /\ G(R) = g[x] + G(R \ {x})
  <2>1. IsFiniteSet(R) /\ \A x \in R : f[x] \in Nat /\ g[x] \in Nat
    BY FS_Subset
  <2>2. R = {} => F(R) = 0 /\ G(R) = 0
    BY <2>1, SumChosen
  <2>3. \A x \in R : F(R) = f[x] + F(R \ {x}) /\ G(R) = g[x] + G(R \ {x})
    BY <2>1, SumElement
  <2> HIDE DEF F, G
  <2> QED
    BY <2>1, <2>2, <2>3, FS_CardinalityType, FS_RemoveElement
<1> HIDE DEF F, G
<1>2. ASSUME Bad # {} PROVE FALSE
  <2>1. T \in SUBSET Nat /\ T # {}
    BY <1>1, <1>2
  <2>2. PICK n \in T : \A m \in T : n <= m
    <3> HIDE DEF T
    <3> QED
      BY <2>1, LeastOf
  <2>3. PICK R \in Bad : n = Cardinality(R)
    OBVIOUS
  <2>4. R \in SUBSET S /\ F(R) # G(R) /\ n \in Nat
    BY <1>1, <2>3
  <2>5. PICK c : c \in R
    BY <1>1, <2>4
  <2>6. F(R \ {c}) = G(R \ {c})
    <3>1. R \ {c} \in SUBSET S /\ Cardinality(R \ {c}) = n - 1
      BY <1>1, <2>3, <2>4, <2>5
    <3>2. n - 1 \notin T
      <4> HIDE DEF T
      <4> QED
        BY <2>2, <2>4
    <3> QED
      BY <3>1, <3>2
  <2>7. f[c] = g[c]
    BY <2>4, <2>5
  <2> QED
    BY <1>1, <2>4, <2>5, <2>6, <2>7
<1> QED
  BY <1>2 DEF F, G

(* It is the sum of two parts.                                               *)
LEMMA SumParts ==
    ASSUME NEW f, NEW S, IsFiniteSet(S), \A x \in S : f[x] \in Nat, NEW R \in SUBSET S
    PROVE  SumFunctionOnSet(f, S) = SumFunctionOnSet(f, R) + SumFunctionOnSet(f, S \ R)
<1> DEFINE F(Q) == SumFunctionOnSet(f, Q)
           Bad == {Q \in SUBSET R : F(S) # F(Q) + F(S \ Q)}
           T == {Cardinality(Q) : Q \in Bad}
<1>1. ASSUME NEW Q \in SUBSET S
      PROVE  /\ Cardinality(Q) \in Nat /\ F(Q) \in Nat /\ F(S \ Q) \in Nat
             /\ \A x \in Q : /\ Cardinality(Q \ {x}) = Cardinality(Q) - 1
                             /\ F(Q) = f[x] + F(Q \ {x})
                             /\ F(S \ (Q \ {x})) = f[x] + F(S \ Q)
             /\ Q = {} => F(Q) = 0
  <2>1. IsFiniteSet(Q) /\ \A x \in Q : f[x] \in Nat
    BY FS_Subset
  <2>2. IsFiniteSet(S \ Q) /\ \A x \in S \ Q : f[x] \in Nat
    BY FS_Difference
  <2>3. (Q = {} => F(Q) = 0)
    BY <2>1, SumChosen
  <2>4. F(Q) \in Nat /\ \A x \in Q : F(Q) = f[x] + F(Q \ {x})
    BY <2>1, SumElement
  <2>5. F(S \ Q) \in Nat
    BY <2>2, SumElement
  <2>6. ASSUME NEW x \in Q PROVE F(S \ (Q \ {x})) = f[x] + F(S \ Q)
    <3>1. IsFiniteSet(S \ (Q \ {x})) /\ \A y \in S \ (Q \ {x}) : f[y] \in Nat
      BY FS_Difference
    <3>2. x \in S \ (Q \ {x}) /\ (S \ (Q \ {x})) \ {x} = S \ Q
      OBVIOUS
    <3>3. F(S \ (Q \ {x})) = f[x] + F((S \ (Q \ {x})) \ {x})
      BY <3>1, <3>2, SumElement
    <3> QED
      BY <3>2, <3>3
  <2> HIDE DEF F
  <2> QED
    BY <2>1, <2>3, <2>4, <2>5, <2>6, FS_CardinalityType, FS_RemoveElement
<1> HIDE DEF F
<1>2. ASSUME Bad # {} PROVE FALSE
  <2>1. T \in SUBSET Nat /\ T # {}
    <3>1. \A Q \in SUBSET S : Cardinality(Q) \in Nat
      BY <1>1
    <3>2. Bad \subseteq SUBSET S
      OBVIOUS
    <3> HIDE DEF Bad
    <3> QED
      BY <1>2, <3>1, <3>2
  <2>2. PICK n \in T : \A m \in T : n <= m
    <3> HIDE DEF T
    <3> QED
      BY <2>1, LeastOf
  <2>3. PICK Q \in Bad : n = Cardinality(Q)
    OBVIOUS
  <2>4. Q \in SUBSET R /\ Q \in SUBSET S /\ F(S) # F(Q) + F(S \ Q) /\ n \in Nat
    BY <1>1, <2>3
  <2>5. PICK c : c \in Q
    <3>1. CASE Q = {}
      <4>1. F(Q) = 0 /\ S \ Q = S /\ F(S \ Q) \in Nat
        BY <1>1, <2>4, <3>1
      <4> QED
        BY <2>4, <4>1
    <3> QED
      BY <3>1
  <2>6. F(S) = F(Q \ {c}) + F(S \ (Q \ {c}))
    <3>1. Q \ {c} \in SUBSET R /\ Cardinality(Q \ {c}) = n - 1
      BY <1>1, <2>3, <2>4, <2>5
    <3>2. n - 1 \notin T
      <4> HIDE DEF T
      <4> QED
        BY <2>2, <2>4
    <3> QED
      BY <3>1, <3>2
  <2>7. f[c] \in Nat /\ F(Q \ {c}) \in Nat /\ F(S \ Q) \in Nat
    <3>1. Q \ {c} \in SUBSET S
      BY <2>4
    <3> QED
      BY <1>1, <2>4, <2>5, <3>1
  <2>8. F(Q) = f[c] + F(Q \ {c}) /\ F(S \ (Q \ {c})) = f[c] + F(S \ Q)
    BY <1>1, <2>4, <2>5
  <2> QED
    BY <2>4, <2>6, <2>7, <2>8
<1> QED
  BY <1>2 DEF F

(* The sum of nothing but zeros is zero.                                     *)
LEMMA SumZero ==
    ASSUME NEW f, NEW S, IsFiniteSet(S), \A x \in S : f[x] = 0
    PROVE  SumFunctionOnSet(f, S) = 0
<1> DEFINE F(R) == SumFunctionOnSet(f, R)
           Bad == {R \in SUBSET S : F(R) # 0}
           T == {Cardinality(R) : R \in Bad}
<1>1. ASSUME NEW R \in SUBSET S
      PROVE  /\ Cardinality(R) \in Nat
             /\ R = {} => F(R) = 0
             /\ \A x \in R : /\ R \ {x} \in SUBSET S /\ Cardinality(R \ {x}) = Cardinality(R) - 1
                             /\ F(R) = f[x] + F(R \ {x})
  <2>1. IsFiniteSet(R) /\ \A x \in R : f[x] \in Nat
    BY FS_Subset
  <2>2. R = {} => F(R) = 0
    BY <2>1, SumChosen
  <2>3. \A x \in R : F(R) = f[x] + F(R \ {x})
    BY <2>1, SumElement
  <2> HIDE DEF F
  <2> QED
    BY <2>1, <2>2, <2>3, FS_CardinalityType, FS_RemoveElement
<1> HIDE DEF F
<1>2. ASSUME Bad # {} PROVE FALSE
  <2>1. T \in SUBSET Nat /\ T # {}
    BY <1>1, <1>2
  <2>2. PICK n \in T : \A m \in T : n <= m
    <3> HIDE DEF T
    <3> QED
      BY <2>1, LeastOf
  <2>3. PICK R \in Bad : n = Cardinality(R)
    OBVIOUS
  <2>4. R \in SUBSET S /\ F(R) # 0 /\ n \in Nat
    BY <1>1, <2>3
  <2>5. PICK c : c \in R
    BY <1>1, <2>4
  <2>6. F(R \ {c}) = 0
    <3>1. R \ {c} \in SUBSET S /\ Cardinality(R \ {c}) = n - 1
      BY <1>1, <2>3, <2>4, <2>5
    <3>2. n - 1 \notin T
      <4> HIDE DEF T
      <4> QED
        BY <2>2, <2>4
    <3> QED
      BY <3>1, <3>2
  <2>7. f[c] = 0 /\ F(R) = f[c] + F(R \ {c})
    BY <1>1, <2>4, <2>5
  <2> QED
    BY <2>4, <2>6, <2>7
<1> QED
  BY <1>2 DEF F

-----------------------------------------------------------------------------
(* What a loop computes: while a state is in Goes, it goes on with the next, *)
(* and then returns what out says of the state.                              *)
IsLoop(f, S, Goes, next, out) == f = [x \in S |-> IF x \in Goes THEN f[next[x]] ELSE out[x]]

(* There is such a function, if a measure of the states decreases: by the    *)
(* least measure up to which not.                                            *)
LEMMA LoopExists ==
    ASSUME NEW S, NEW Goes, NEW next, NEW out, NEW N \in Nat, NEW mu,
           \A x \in S : mu[x] \in 0 .. N,
           \A x \in S : x \in Goes => next[x] \in S /\ mu[next[x]] < mu[x]
    PROVE  \E f : IsLoop(f, S, Goes, next, out)
<1> DEFINE Small(n) == {x \in S : mu[x] < n}
           T == {n \in Nat : ~ \E f : IsLoop(f, Small(n), Goes, next, out)}
<1>1. ASSUME T # {} PROVE FALSE
  <2>0. T \in SUBSET Nat
    OBVIOUS
  <2>1. PICK n \in T : \A m \in T : n <= m
    <3> HIDE DEF T
    <3> QED
      BY <1>1, <2>0, LeastOf
  <2>2. n \in Nat /\ ~ \E f : IsLoop(f, Small(n), Goes, next, out)
    OBVIOUS
  <2>3. n # 0
    <3>1. Small(0) = {}
      OBVIOUS
    <3>2. IsLoop([x \in Small(0) |-> 0], Small(0), Goes, next, out)
      BY <3>1 DEF IsLoop
    <3> QED
      BY <2>2, <3>2
  <2>4. n - 1 \in Nat /\ n - 1 \notin T
    <3> HIDE DEF T
    <3> QED
      BY <2>1, <2>2, <2>3
  <2>5. PICK g : IsLoop(g, Small(n - 1), Goes, next, out)
    BY <2>4
  <2> DEFINE h == [x \in Small(n) |-> IF x \in Goes THEN g[next[x]] ELSE out[x]]
  <2>6. ASSUME NEW x \in Small(n), x \in Goes PROVE h[next[x]] = g[next[x]]
    <3> DEFINE y == next[x]
    <3>1. y \in S /\ mu[y] \in Nat /\ mu[x] \in Nat /\ mu[y] < mu[x] /\ mu[x] < n
      BY <2>6
    <3>2. y \in Small(n - 1) /\ y \in Small(n)
      BY <2>2, <3>1
    <3>3. g[y] = IF y \in Goes THEN g[next[y]] ELSE out[y]
      <4> HIDE DEF Small, y
      <4> QED
        BY <2>5, <3>2 DEF IsLoop
    <3> HIDE DEF Small, y
    <3>4. h[y] = IF y \in Goes THEN g[next[y]] ELSE out[y]
      BY <3>2
    <3> QED
      BY <3>3, <3>4 DEF y
  <2>7. IsLoop(h, Small(n), Goes, next, out)
    <3>1. \A x \in Small(n) : h[x] = IF x \in Goes THEN h[next[x]] ELSE out[x]
      <4> HIDE DEF Small
      <4> QED
        BY <2>6
    <3> HIDE DEF Small
    <3> QED
      BY <3>1 DEF IsLoop
  <2> QED
    BY <2>2, <2>7
<1>2. Small(N + 1) = S
  OBVIOUS
<1>3. N + 1 \in Nat /\ N + 1 \notin T
  <2> HIDE DEF T
  <2> QED
    BY <1>1
<1> QED
  BY <1>2, <1>3

(* From a state of P, which no state leaves, a loop ends in a state of P: by *)
(* the least measure of one from which it does not.                          *)
LEMMA LoopEnds ==
    ASSUME NEW S, NEW Goes, NEW next, NEW out, NEW N \in Nat, NEW mu,
           \A x \in S : mu[x] \in 0 .. N,
           \A x \in S : x \in Goes => next[x] \in S /\ mu[next[x]] < mu[x],
           NEW P \in SUBSET S, \A x \in P : x \in Goes => next[x] \in P,
           NEW f, IsLoop(f, S, Goes, next, out), NEW x \in P
    PROVE  \E y \in P \ Goes : f[x] = out[y]
<1> DEFINE Ends(z) == \E y \in P \ Goes : f[z] = out[y]
           T == {mu[z] : z \in {z \in P : ~Ends(z)}}
<1>1. ASSUME NEW z \in P, ~Ends(z) PROVE FALSE
  <2>0. T \in SUBSET Nat /\ T # {}
    BY <1>1
  <2>1. PICK n \in T : \A m \in T : n <= m
    <3> HIDE DEF T
    <3> QED
      BY <2>0, LeastOf
  <2>2. PICK w \in P : ~Ends(w) /\ n = mu[w]
    OBVIOUS
  <2>3. f[w] = IF w \in Goes THEN f[next[w]] ELSE out[w]
    BY DEF IsLoop
  <2>4. w \in Goes
    BY <2>2, <2>3
  <2>5. next[w] \in P /\ ~Ends(next[w])
    BY <2>2, <2>3, <2>4
  <2>6. mu[next[w]] \in T
    BY <2>5
  <2>7. n <= mu[next[w]] /\ mu[next[w]] < n /\ n \in Nat /\ mu[next[w]] \in Nat
    <3> HIDE DEF T
    <3> QED
      BY <2>0, <2>1, <2>2, <2>4, <2>5, <2>6
  <2> QED
    BY <2>7
<1> QED
  BY <1>1
=============================================================================
