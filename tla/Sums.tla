---------------------------------- MODULE Sums ----------------------------------
(***************************************************************************)
(* Sums over finite sets, as SumFunctionOnSet defines them: by a recursive *)
(* function that takes out one element after the other, in an order of its *)
(* own choice.  The induction is by a minimal counterexample: among the    *)
(* subsets of a finite set that lack a property, one is the smallest.      *)
(***************************************************************************)
EXTENDS Integers, Functions, FiniteSetTheorems, WellFoundedInduction, TLAPS

LEMMA SmallestSubset ==
  ASSUME NEW F, IsFiniteSet(F), NEW B, B \subseteq SUBSET F, B # {}
  PROVE  \E m \in B: \A U \in B: U \subseteq m => U = m
<1>1. FiniteSubsetsOf(F) = SUBSET F
  BY FS_FiniteSubsetsOfFinite
<1>2. IsWellFoundedOn(StrictSubsetOrdering(F), FiniteSubsetsOf(F))
  BY FS_StrictSubsetOrderingWellFounded
<1>3. \E m \in B: \A U \in B: <<U, m>> \notin StrictSubsetOrdering(F)
  BY <1>1, <1>2, WFMin
<1>4. QED
  BY <1>3 DEF StrictSubsetOrdering

(* A set of subsets that is closed under adding an element has them all.   *)
LEMMA SubsetInduction ==
  ASSUME NEW F, IsFiniteSet(F), NEW G, {} \in G,
         \A s \in SUBSET F: \A x \in s: s \ {x} \in G => s \in G
  PROVE  \A s \in SUBSET F: s \in G
<1> DEFINE B == {s \in SUBSET F: s \notin G}
<1>1. ASSUME NEW m \in B, \A U \in B: U \subseteq m => U = m PROVE FALSE
  <2>1. PICK x \in m: TRUE
    BY <1>1
  <2>2. m \ {x} \in SUBSET F /\ m \ {x} \notin G /\ m \ {x} \subseteq m /\ m \ {x} # m
    BY <2>1, <1>1
  <2>3. QED
    BY <2>2, <1>1
<1>2. B = {}
  <2>1. B \subseteq SUBSET F
    OBVIOUS
  <2> HIDE DEF B
  <2>2. B # {} => \E m \in B: \A U \in B: U \subseteq m => U = m
    BY <2>1, SmallestSubset
  <2>3. QED
    BY <2>2, <1>1
<1>3. QED
  BY <1>2
-----------------------------------------------------------------------------
(* A table of the sums over the subsets of S, whatever is taken out first. *)
IsSum(g, f, S) == /\ g \in [SUBSET S -> Int] /\ g[{}] = 0
                  /\ \A s \in SUBSET S: \A x \in s: g[s] = f[x] + g[s \ {x}]

One(s) == CHOOSE x \in s: TRUE
Iter(f, S) == CHOOSE g: g = [s \in SUBSET S |-> IF s = {} THEN 0 ELSE f[One(s)] + g[s \ {One(s)}]]

LEMMA SumIter == ASSUME NEW f, NEW S PROVE SumFunctionOnSet(f, S) = Iter(f, S)[S]
BY DEF SumFunctionOnSet, FoldFunctionOnSet, MapThenFoldSet, Iter, One

LEMMA SumTable ==
  ASSUME NEW f, NEW S, IsFiniteSet(S), \A x \in S: f[x] \in Int
  PROVE  \E g: IsSum(g, f, S)
<1> DEFINE G == {T \in SUBSET S: \E g: IsSum(g, f, T)}
<1>1. {} \in G
  <2>1. IsSum([s \in SUBSET {} |-> 0], f, {})
    BY DEF IsSum
  <2>2. QED
    BY <2>1
<1>2. ASSUME NEW T \in SUBSET S, NEW y \in T, T \ {y} \in G PROVE T \in G
  <2> DEFINE R == T \ {y}
  <2>1. PICK h: IsSum(h, f, R)
    BY <1>2
  <2> DEFINE g == [s \in SUBSET T |-> IF y \in s THEN f[y] + h[s \ {y}] ELSE h[s]]
  <2>2. /\ h \in [SUBSET R -> Int] /\ h[{}] = 0
        /\ \A s \in SUBSET R: \A x \in s: h[s] = f[x] + h[s \ {x}]
    BY <2>1 DEF IsSum
  <2>3. \A s \in SUBSET T: s \ {y} \in SUBSET R /\ (y \notin s => s \in SUBSET R)
    OBVIOUS
  <2>4. f[y] \in Int /\ \A x \in T: f[x] \in Int
    OBVIOUS
  <2>5. g \in [SUBSET T -> Int] /\ g[{}] = 0
    BY <2>2, <2>3, <2>4
  <2>6. ASSUME NEW s \in SUBSET T, NEW x \in s PROVE g[s] = f[x] + g[s \ {x}]
    <3>1. CASE x = y
      BY <3>1, <2>3
    <3>2. CASE y \notin s
      <4>1. s \in SUBSET R /\ s \ {x} \in SUBSET T /\ y \notin s \ {x}
        BY <3>2
      <4>2. QED
        BY <4>1, <3>2, <2>2
    <3>3. CASE x # y /\ y \in s
      <4>1. /\ s \ {y} \in SUBSET R /\ x \in s \ {y} /\ y \in s \ {x}
            /\ (s \ {y}) \ {x} = (s \ {x}) \ {y} /\ s \ {x} \in SUBSET T
            /\ (s \ {y}) \ {x} \in SUBSET R
        BY <3>3
      <4>2. h[s \ {y}] = f[x] + h[(s \ {x}) \ {y}] /\ h[(s \ {x}) \ {y}] \in Int
        BY <4>1, <2>2
      <4>3. g[s] = f[y] + h[s \ {y}] /\ g[s \ {x}] = f[y] + h[(s \ {x}) \ {y}]
        BY <4>1, <3>3
      <4>4. QED
        BY <4>2, <4>3, <2>4
    <3>4. QED
      BY <3>1, <3>2, <3>3
  <2>7. IsSum(g, f, T)
    BY <2>5, <2>6 DEF IsSum
  <2>8. QED
    BY <2>7
<1>3. S \in G
  BY <1>1, <1>2, SubsetInduction
<1>4. QED
  BY <1>3

LEMMA SumIsTable ==
  ASSUME NEW f, NEW S, IsFiniteSet(S), NEW g, IsSum(g, f, S)
  PROVE  SumFunctionOnSet(f, S) = g[S]
<1> DEFINE body(k) == [s \in SUBSET S |-> IF s = {} THEN 0 ELSE f[One(s)] + k[s \ {One(s)}]]
           h == Iter(f, S)
           G == {s \in SUBSET S: h[s] = g[s]}
<1>1. \A s \in SUBSET S: s # {} => One(s) \in s
  BY DEF One
<1>2. g = body(g)
  BY <1>1 DEF IsSum
<1>3. h = body(h)
  BY <1>2 DEF Iter
<1> HIDE DEF h
<1>4. {} \in G
  BY <1>3 DEF IsSum
<1>5. ASSUME NEW m \in SUBSET S, m \notin G,
             \A U \in SUBSET S: U \notin G /\ U \subseteq m => U = m
      PROVE  FALSE
  <2>1. m # {} /\ One(m) \in m
    BY <1>1, <1>4, <1>5
  <2>2. h[m] = f[One(m)] + h[m \ {One(m)}]
    BY <1>3, <2>1
  <2>3. m \ {One(m)} \in G
    BY <1>5, <2>1
  <2>4. QED
    BY <1>5, <2>1, <2>2, <2>3 DEF IsSum
<1>6. {s \in SUBSET S: s \notin G} = {}
  <2> DEFINE B == {s \in SUBSET S: s \notin G}
  <2>1. B \subseteq SUBSET S
    OBVIOUS
  <2>2. \A m \in B: m \in SUBSET S /\ m \notin G
    OBVIOUS
  <2>3. \A U \in SUBSET S: U \notin G => U \in B
    OBVIOUS
  <2> HIDE DEF B
  <2>4. B # {} => \E m \in B: \A U \in B: U \subseteq m => U = m
    BY <2>1, SmallestSubset
  <2>5. QED
    BY <2>2, <2>3, <2>4, <1>5 DEF B
<1>7. QED
  BY <1>6, SumIter DEF h
-----------------------------------------------------------------------------
(* What proofs need of a sum.                                              *)

LEMMA SumParts ==
  ASSUME NEW f, NEW S, IsFiniteSet(S), \A x \in S: f[x] \in Int
  PROVE  \E g: IsSum(g, f, S) /\ \A T \in SUBSET S: SumFunctionOnSet(f, T) = g[T]
<1>1. PICK g: IsSum(g, f, S)
  BY SumTable
<1>2. ASSUME NEW T \in SUBSET S PROVE SumFunctionOnSet(f, T) = g[T]
  <2> DEFINE h == [s \in SUBSET T |-> g[s]]
  <2>1. IsSum(h, f, T)
    BY <1>1 DEF IsSum
  <2>2. IsFiniteSet(T) /\ h[T] = g[T]
    BY FS_Subset
  <2>3. SumFunctionOnSet(f, T) = h[T]
    BY <2>1, <2>2, SumIsTable
  <2>4. QED
    BY <2>2, <2>3
<1>3. QED
  BY <1>1, <1>2

(* The empty sum, its type, and one summand at a time.                     *)
LEMMA SumOfNone == ASSUME NEW f PROVE SumFunctionOnSet(f, {}) = 0
<1>1. IsFiniteSet({})
  BY FS_EmptySet
<1>2. PICK g: IsSum(g, f, {}) /\ \A T \in SUBSET {}: SumFunctionOnSet(f, T) = g[T]
  BY <1>1, SumParts
<1>3. QED
  BY <1>2 DEF IsSum

LEMMA SumIsInt ==
  ASSUME NEW f, NEW S, IsFiniteSet(S), \A x \in S: f[x] \in Int
  PROVE  SumFunctionOnSet(f, S) \in Int
<1>1. PICK g: IsSum(g, f, S) /\ \A T \in SUBSET S: SumFunctionOnSet(f, T) = g[T]
  BY SumParts
<1>2. S \in SUBSET S /\ g \in [SUBSET S -> Int]
  BY <1>1 DEF IsSum
<1>3. QED
  BY <1>1, <1>2

LEMMA SumTakeOut ==
  ASSUME NEW f, NEW S, IsFiniteSet(S), \A x \in S: f[x] \in Int, NEW x \in S
  PROVE  /\ SumFunctionOnSet(f, S) = f[x] + SumFunctionOnSet(f, S \ {x})
         /\ SumFunctionOnSet(f, S) \in Int /\ SumFunctionOnSet(f, S \ {x}) \in Int
<1>1. PICK g: IsSum(g, f, S) /\ \A T \in SUBSET S: SumFunctionOnSet(f, T) = g[T]
  BY SumParts
<1>2. S \ {x} \in SUBSET S /\ S \in SUBSET S
  OBVIOUS
<1>3. g \in [SUBSET S -> Int] /\ g[S] = f[x] + g[S \ {x}]
  BY <1>1, <1>2 DEF IsSum
<1>4. QED
  BY <1>1, <1>2, <1>3

(* What relates the sums of two functions over the same elements.          *)
LEMMA SumAtMost ==
  ASSUME NEW f, NEW h, NEW S, IsFiniteSet(S),
         \A x \in S: f[x] \in Int /\ h[x] \in Int /\ f[x] <= h[x]
  PROVE  SumFunctionOnSet(f, S) <= SumFunctionOnSet(h, S)
<1> DEFINE G == {T \in SUBSET S: SumFunctionOnSet(f, T) <= SumFunctionOnSet(h, T)}
<1>1. {} \in G
  BY SumOfNone
<1>2. ASSUME NEW T \in SUBSET S, NEW y \in T, T \ {y} \in G PROVE T \in G
  <2>1. IsFiniteSet(T)
    BY FS_Subset
  <2>2. /\ SumFunctionOnSet(f, T) = f[y] + SumFunctionOnSet(f, T \ {y})
        /\ SumFunctionOnSet(f, T) \in Int /\ SumFunctionOnSet(f, T \ {y}) \in Int
    BY <2>1, SumTakeOut
  <2>3. /\ SumFunctionOnSet(h, T) = h[y] + SumFunctionOnSet(h, T \ {y})
        /\ SumFunctionOnSet(h, T) \in Int /\ SumFunctionOnSet(h, T \ {y}) \in Int
    BY <2>1, SumTakeOut
  <2>4. QED
    BY <1>2, <2>2, <2>3
<1>3. S \in G
  BY <1>1, <1>2, SubsetInduction
<1>4. QED
  BY <1>3

LEMMA SumSame ==
  ASSUME NEW f, NEW h, NEW S, IsFiniteSet(S), \A x \in S: f[x] \in Int /\ h[x] = f[x]
  PROVE  SumFunctionOnSet(h, S) = SumFunctionOnSet(f, S)
<1>1. SumFunctionOnSet(f, S) <= SumFunctionOnSet(h, S)
  BY SumAtMost
<1>2. SumFunctionOnSet(h, S) <= SumFunctionOnSet(f, S)
  BY SumAtMost
<1>3. SumFunctionOnSet(f, S) \in Int /\ SumFunctionOnSet(h, S) \in Int
  BY SumIsInt
<1>4. QED
  BY <1>1, <1>2, <1>3

LEMMA SumOfTwo ==
  ASSUME NEW f, NEW g, NEW h, NEW S, IsFiniteSet(S),
         \A x \in S: f[x] \in Int /\ g[x] \in Int /\ h[x] = f[x] + g[x]
  PROVE  SumFunctionOnSet(h, S) = SumFunctionOnSet(f, S) + SumFunctionOnSet(g, S)
<1> DEFINE G == {T \in SUBSET S:
                   SumFunctionOnSet(h, T) = SumFunctionOnSet(f, T) + SumFunctionOnSet(g, T)}
<1>1. {} \in G
  BY SumOfNone
<1>2. ASSUME NEW T \in SUBSET S, NEW y \in T, T \ {y} \in G PROVE T \in G
  <2> HIDE DEF G
  <2>1. IsFiniteSet(T)
    BY FS_Subset
  <2>f. \A x \in T: f[x] \in Int
    OBVIOUS
  <2>g. \A x \in T: g[x] \in Int
    OBVIOUS
  <2>h. \A x \in T: h[x] \in Int
    OBVIOUS
  <2>2. /\ SumFunctionOnSet(f, T) = f[y] + SumFunctionOnSet(f, T \ {y})
        /\ SumFunctionOnSet(f, T \ {y}) \in Int
    BY ONLY <2>1, <2>f, SumTakeOut, y \in T
  <2>3. /\ SumFunctionOnSet(g, T) = g[y] + SumFunctionOnSet(g, T \ {y})
        /\ SumFunctionOnSet(g, T \ {y}) \in Int
    BY ONLY <2>1, <2>g, SumTakeOut, y \in T
  <2>4. /\ SumFunctionOnSet(h, T) = h[y] + SumFunctionOnSet(h, T \ {y})
        /\ SumFunctionOnSet(h, T \ {y}) \in Int
    BY ONLY <2>1, <2>h, SumTakeOut, y \in T
  <2>5. /\ SumFunctionOnSet(h, T \ {y})
             = SumFunctionOnSet(f, T \ {y}) + SumFunctionOnSet(g, T \ {y})
        /\ h[y] = f[y] + g[y] /\ f[y] \in Int /\ g[y] \in Int
    BY <1>2 DEF G
  <2>6. SumFunctionOnSet(h, T) = SumFunctionOnSet(f, T) + SumFunctionOnSet(g, T)
    BY <2>2, <2>3, <2>4, <2>5
  <2>7. QED
    BY <2>6 DEF G
<1>3. S \in G
  BY <1>1, <1>2, SubsetInduction
<1>4. QED
  BY <1>3

LEMMA SumTimes ==
  ASSUME NEW f, NEW h, NEW S, IsFiniteSet(S), NEW c \in Int,
         \A x \in S: f[x] \in Int /\ h[x] = c * f[x]
  PROVE  SumFunctionOnSet(h, S) = c * SumFunctionOnSet(f, S)
<1> DEFINE G == {T \in SUBSET S: SumFunctionOnSet(h, T) = c * SumFunctionOnSet(f, T)}
<1>1. {} \in G
  BY SumOfNone
<1>2. ASSUME NEW T \in SUBSET S, NEW y \in T, T \ {y} \in G PROVE T \in G
  <2> HIDE DEF G
  <2>1. IsFiniteSet(T)
    BY FS_Subset
  <2>f. \A x \in T: f[x] \in Int
    OBVIOUS
  <2>h. \A x \in T: h[x] \in Int
    OBVIOUS
  <2>2. /\ SumFunctionOnSet(f, T) = f[y] + SumFunctionOnSet(f, T \ {y})
        /\ SumFunctionOnSet(f, T \ {y}) \in Int
    BY ONLY <2>1, <2>f, SumTakeOut, y \in T
  <2>3. SumFunctionOnSet(h, T) = h[y] + SumFunctionOnSet(h, T \ {y})
    BY ONLY <2>1, <2>h, SumTakeOut, y \in T
  <2>4. SumFunctionOnSet(h, T \ {y}) = c * SumFunctionOnSet(f, T \ {y})
        /\ h[y] = c * f[y] /\ f[y] \in Int
    BY <1>2 DEF G
  <2>5. \A p, q \in Int: c * p + c * q = c * (p + q)
    OBVIOUS
  <2>6. SumFunctionOnSet(h, T) = c * SumFunctionOnSet(f, T)
    BY <2>2, <2>3, <2>4, <2>5
  <2>7. QED
    BY <2>6 DEF G
<1>3. S \in G
  BY <1>1, <1>2, SubsetInduction
<1>4. QED
  BY <1>3

(* Leaving summands out is counting them as nothing.                       *)
LEMMA SumWithin ==
  ASSUME NEW f, NEW h, NEW S, IsFiniteSet(S), NEW T, T \subseteq S, \A x \in S: f[x] \in Int,
         \A x \in S: h[x] = IF x \in T THEN f[x] ELSE 0
  PROVE  SumFunctionOnSet(h, S) = SumFunctionOnSet(f, T)
<1> DEFINE G == {U \in SUBSET S: SumFunctionOnSet(h, U) = SumFunctionOnSet(f, U \cap T)}
<1>1. {} \in G
  <2>1. {} \cap T = {}
    OBVIOUS
  <2>2. QED
    BY <2>1, SumOfNone
<1>2. ASSUME NEW U \in SUBSET S, NEW y \in U, U \ {y} \in G PROVE U \in G
  <2>1. SumFunctionOnSet(h, U \ {y}) = SumFunctionOnSet(f, (U \ {y}) \cap T)
    BY <1>2
  <2> HIDE DEF G
  <2>2. /\ IsFiniteSet(U) /\ IsFiniteSet(U \cap T)
        /\ \A x \in U \cap T: f[x] \in Int
        /\ \A x \in U: h[x] \in Int
        /\ h[y] = IF y \in T THEN f[y] ELSE 0
    BY FS_Subset
  <2>3. /\ SumFunctionOnSet(h, U) = h[y] + SumFunctionOnSet(h, U \ {y})
        /\ SumFunctionOnSet(h, U \ {y}) \in Int
    BY ONLY <2>2, SumTakeOut, y \in U
  <2>4. CASE y \in T
    <3>1. y \in U \cap T
      BY <2>4
    <3>2. SumFunctionOnSet(f, U \cap T) = f[y] + SumFunctionOnSet(f, (U \cap T) \ {y})
      BY ONLY <2>2, <3>1, SumTakeOut
    <3>3. (U \cap T) \ {y} = (U \ {y}) \cap T
      OBVIOUS
    <3>4. SumFunctionOnSet(h, U) = SumFunctionOnSet(f, U \cap T)
      BY <2>1, <2>2, <2>3, <2>4, <3>2, <3>3
    <3>5. QED
      BY <3>4 DEF G
  <2>5. CASE y \notin T
    <3>1. U \cap T = (U \ {y}) \cap T
      BY <2>5
    <3>2. h[y] = 0
      BY <2>2, <2>5
    <3>3. SumFunctionOnSet(h, U) = SumFunctionOnSet(h, U \ {y})
      BY ONLY <2>3, <3>2
    <3>4. SumFunctionOnSet(h, U) = SumFunctionOnSet(f, U \cap T)
      BY ONLY <2>1, <3>1, <3>3
    <3>5. QED
      BY <3>4 DEF G
  <2>6. QED
    BY <2>4, <2>5
<1>3. S \in G
  BY <1>1, <1>2, SubsetInduction
<1>4. S \cap T = T
  OBVIOUS
<1>5. QED
  BY <1>3, <1>4

(* Bounds: no summand is negative; a part is no more than the whole.       *)
LEMMA SumIsNat ==
  ASSUME NEW f, NEW S, IsFiniteSet(S), \A x \in S: f[x] \in Nat
  PROVE  SumFunctionOnSet(f, S) \in Nat
<1> DEFINE zero == [x \in S |-> 0]
<1>1. SumFunctionOnSet(zero, S) = SumFunctionOnSet(f, {})
  <2>1. \A x \in S: f[x] \in Int /\ zero[x] = IF x \in {} THEN f[x] ELSE 0
    OBVIOUS
  <2> HIDE DEF zero
  <2>2. QED
    BY <2>1, SumWithin
<1>2. \A x \in S: zero[x] \in Int /\ f[x] \in Int /\ zero[x] <= f[x]
  OBVIOUS
<1> HIDE DEF zero
<1>3. SumFunctionOnSet(zero, S) <= SumFunctionOnSet(f, S)
  BY <1>2, SumAtMost
<1>4. SumFunctionOnSet(f, S) \in Int
  BY <1>2, SumIsInt
<1>5. QED
  BY <1>1, <1>3, <1>4, SumOfNone

LEMMA SumOfPart ==
  ASSUME NEW f, NEW S, IsFiniteSet(S), \A x \in S: f[x] \in Nat, NEW T, T \subseteq S
  PROVE  SumFunctionOnSet(f, T) <= SumFunctionOnSet(f, S)
<1> DEFINE part == [x \in S |-> IF x \in T THEN f[x] ELSE 0]
<1>1. \A x \in S: /\ part[x] = IF x \in T THEN f[x] ELSE 0
                  /\ part[x] \in Int /\ f[x] \in Int /\ part[x] <= f[x]
  OBVIOUS
<1> HIDE DEF part
<1>2. SumFunctionOnSet(part, S) = SumFunctionOnSet(f, T)
  BY <1>1, SumWithin
<1>3. SumFunctionOnSet(part, S) <= SumFunctionOnSet(f, S)
  BY <1>1, SumAtMost
<1>4. QED
  BY <1>2, <1>3

(* One summand changed, or one added.                                      *)
LEMMA SumChanged ==
  ASSUME NEW f, NEW h, NEW S, IsFiniteSet(S), NEW y \in S, h[y] \in Int,
         \A x \in S: f[x] \in Int /\ (x # y => h[x] = f[x])
  PROVE  SumFunctionOnSet(h, S) = SumFunctionOnSet(f, S) - f[y] + h[y]
<1>1. \A x \in S: h[x] \in Int /\ f[x] \in Int
  OBVIOUS
<1>2. SumFunctionOnSet(f, S) = f[y] + SumFunctionOnSet(f, S \ {y})
      /\ SumFunctionOnSet(f, S \ {y}) \in Int
  BY <1>1, SumTakeOut
<1>3. SumFunctionOnSet(h, S) = h[y] + SumFunctionOnSet(h, S \ {y})
  BY <1>1, SumTakeOut
<1>4. SumFunctionOnSet(h, S \ {y}) = SumFunctionOnSet(f, S \ {y})
  <2>1. IsFiniteSet(S \ {y}) /\ \A x \in S \ {y}: f[x] \in Int /\ h[x] = f[x]
    BY FS_Subset
  <2>2. QED
    BY <2>1, SumSame
<1>5. QED
  BY <1>1, <1>2, <1>3, <1>4

(* A sum over an interval, one summand at a time.                          *)
LEMMA SumRange ==
  ASSUME NEW f, NEW m \in Int, NEW n \in Int, m <= n, \A j \in m..n: f[j] \in Int
  PROVE  /\ SumFunctionOnSet(f, m..n) = f[m] + SumFunctionOnSet(f, (m + 1)..n)
         /\ SumFunctionOnSet(f, (m + 1)..n) \in Int
<1> DEFINE K == m..n
           T == (m + 1)..n
<1>1. IsFiniteSet(K) /\ m \in K /\ \A j \in K: f[j] \in Int
  BY FS_Interval
<1>2. K \ {m} = T
  OBVIOUS
<1> HIDE DEF K, T
<1>3. ASSUME NEW x \in K
      PROVE  /\ SumFunctionOnSet(f, K) = f[x] + SumFunctionOnSet(f, K \ {x})
             /\ SumFunctionOnSet(f, K \ {x}) \in Int
  BY ONLY <1>1, <1>3, SumTakeOut
<1>4. /\ SumFunctionOnSet(f, K) = f[m] + SumFunctionOnSet(f, K \ {m})
      /\ SumFunctionOnSet(f, K \ {m}) \in Int
  BY <1>1, <1>3
<1>5. QED
  BY <1>2, <1>4 DEF K, T

(* Like summands.                                                          *)
LEMMA SumConst ==
  ASSUME NEW f, NEW S, IsFiniteSet(S), NEW c \in Int, \A x \in S: f[x] = c
  PROVE  SumFunctionOnSet(f, S) = c * Cardinality(S)
<1> DEFINE G == {T \in SUBSET S: SumFunctionOnSet(f, T) = c * Cardinality(T)}
<1>1. {} \in G
  BY SumOfNone, FS_EmptySet
<1>2. ASSUME NEW T \in SUBSET S, NEW y \in T, T \ {y} \in G PROVE T \in G
  <2>1. SumFunctionOnSet(f, T \ {y}) = c * Cardinality(T \ {y})
    BY <1>2
  <2> HIDE DEF G
  <2>2. IsFiniteSet(T) /\ \A x \in T: f[x] \in Int
    BY FS_Subset
  <2>3. SumFunctionOnSet(f, T) = f[y] + SumFunctionOnSet(f, T \ {y}) /\ f[y] = c
    BY <2>2, SumTakeOut
  <2>4. Cardinality(T \ {y}) = Cardinality(T) - 1 /\ Cardinality(T) \in Nat
    BY <2>2, FS_RemoveElement, FS_CardinalityType
  <2>5. \A k \in Int: c + c * (k - 1) = c * k
    OBVIOUS
  <2>6. SumFunctionOnSet(f, T) = c * Cardinality(T)
    BY <2>1, <2>3, <2>4, <2>5
  <2>7. QED
    BY <2>6 DEF G
<1>3. S \in G
  <2> HIDE DEF G
  <2>1. QED
    BY ONLY <1>1, <1>2, SubsetInduction, IsFiniteSet(S)
<1>4. QED
  BY <1>3
=================================================================================
