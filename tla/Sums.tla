-------------------------------- MODULE Sums --------------------------------
(***************************************************************************)
(* Sums of functions over finite sets (SumFunction and SumFunctionOnSet of *)
(* the community modules), for the proofs about the scheduler and about    *)
(* the number of workers: a sum does not depend on the order in which the  *)
(* fold takes the elements, and what follows from that.  The library's     *)
(* induction theorems have an operator as a parameter, which the provers   *)
(* cannot instantiate; minimal elements (WFMin) serve instead.             *)
(***************************************************************************)
EXTENDS Integers, FiniteSets, Functions, FiniteSetTheorems, WellFoundedInduction, TLAPS

\* A family of subsets of a finite set has a member with no other member below it.
LEMMA SmallestSubset ==
    ASSUME NEW S, IsFiniteSet(S), NEW F, F \subseteq SUBSET S, F # {}
    PROVE  \E s \in F : \A t \in F : t \subseteq s => t = s
<1>1. IsWellFoundedOn(StrictSubsetOrdering(S), SUBSET S)
  BY FS_StrictSubsetOrderingWellFounded, FS_FiniteSubsetsOfFinite
<1>2. \E s \in F : \A t \in F : ~ (<<t, s>> \in StrictSubsetOrdering(S))
  BY <1>1, WFMin
<1> QED BY <1>2 DEF StrictSubsetOrdering

\* A set of naturals has a least element.
LEMMA LeastElement ==
    ASSUME NEW T, T \subseteq Nat, T # {}
    PROVE  \E n \in T : \A m \in T : n <= m
<1>1. PICK k \in T : k \in Nat
  OBVIOUS
<1> DEFINE low == {m \in T : m <= k}
           F == {0 .. m : m \in low}
<1>2. k \in low /\ low \subseteq Nat
  <2>1. k <= k
    BY <1>1
  <2> QED BY <2>1
<1>3. F \subseteq SUBSET (0 .. k)
  BY <1>2
<1>4. F # {}
  BY <1>2
<1>5. IsFiniteSet(0 .. k)
  BY <1>2, FS_Interval
<1> HIDE DEF F
<1> DEFINE S == 0 .. k
<1>6. F \subseteq SUBSET S /\ F # {} /\ IsFiniteSet(S)
  BY <1>3, <1>4, <1>5
<1> HIDE DEF S
<1>7. PICK s \in F : \A t \in F : t \subseteq s => t = s
  BY ONLY <1>6, SmallestSubset
<1>8. PICK n \in low : s = 0 .. n
  BY <1>7 DEF F
<1>9. ASSUME NEW m \in T, m < n PROVE FALSE
  <2>1. 0 .. m \in F
    BY <1>2, <1>8, <1>9 DEF F
  <2>2. 0 .. m \subseteq s /\ n \notin 0 .. m /\ n \in s
    BY <1>2, <1>8, <1>9
  <2> QED BY <1>7, <2>1, <2>2
<1> QED BY <1>2, <1>8, <1>9

Counting(T) == T \subseteq Nat /\ 0 \in T /\ \A n \in T : n + 1 \in T

\* Induction as a fact about a set, with no operator to instantiate.
LEMMA AllNaturals ==
    ASSUME NEW T, Counting(T)
    PROVE  Nat \subseteq T
<1> SUFFICES ASSUME Nat \ T # {} PROVE FALSE
  OBVIOUS
<1>1. PICK n \in Nat \ T : \A m \in Nat \ T : n <= m
  BY LeastElement
<1>2. n # 0 /\ n - 1 \in Nat
  BY <1>1 DEF Counting
<1>3. n - 1 \in T
  BY <1>1, <1>2
<1> QED BY <1>1, <1>2, <1>3 DEF Counting

\* The recursion by which SumFunctionOnSet is defined.
Pick(s) == CHOOSE x \in s : TRUE

Recursion(f, S, g) ==
    g = [s \in SUBSET S |-> IF s = {} THEN 0 ELSE f[Pick(s)] + g[s \ {Pick(s)}]]

\* The recursive function that the sum is defined by is one, if there is one.
LEMMA Unfold ==
    ASSUME NEW f, NEW S, \E g : Recursion(f, S, g)
    PROVE  \E g : Recursion(f, S, g) /\ SumFunctionOnSet(f, S) = g[S]
BY DEF SumFunctionOnSet, FoldFunctionOnSet, MapThenFoldSet, Recursion, Pick

\* The same up to sets of n elements.
Bounded(f, S, n, g) ==
    g = [s \in SUBSET S |-> IF s = {} \/ Cardinality(s) > n THEN 0
                            ELSE f[Pick(s)] + g[s \ {Pick(s)}]]

\* Taking the chosen element from a finite set makes it smaller.
LEMMA RemovePick ==
    ASSUME NEW S, IsFiniteSet(S), NEW s \in SUBSET S, s # {}
    PROVE  /\ Pick(s) \in s
           /\ IsFiniteSet(s)
           /\ s \ {Pick(s)} \in SUBSET S
           /\ Cardinality(s) \in Nat /\ Cardinality(s) > 0
           /\ Cardinality(s \ {Pick(s)}) = Cardinality(s) - 1
<1>1. Pick(s) \in s
  BY DEF Pick
<1>2. IsFiniteSet(s)
  BY FS_Subset
<1>3. Cardinality(s) \in Nat /\ Cardinality(s) # 0
  BY <1>2, FS_CardinalityType, FS_EmptySet
<1>4. Cardinality(s \ {Pick(s)}) = Cardinality(s) - 1
  BY <1>1, <1>2, FS_RemoveElement
<1>5. Cardinality(s) > 0
  BY <1>3
<1> QED BY <1>1, <1>2, <1>3, <1>4, <1>5

\* A sum up to size n can be continued to size n + 1.
LEMMA BoundedExists ==
    ASSUME NEW f, NEW S, IsFiniteSet(S), NEW n \in Nat, \E g : Bounded(f, S, n, g)
    PROVE  \E g : Bounded(f, S, n + 1, g)
<1>1. PICK g : Bounded(f, S, n, g)
  OBVIOUS
<1> DEFINE h == [s \in SUBSET S |-> IF s = {} \/ Cardinality(s) > n + 1 THEN 0
                                    ELSE f[Pick(s)] + g[s \ {Pick(s)}]]
<1>2. ASSUME NEW s \in SUBSET S, Cardinality(s) <= n, s # {} PROVE h[s] = g[s]
  <2>1. Cardinality(s) \in Nat /\ ~(Cardinality(s) > n) /\ ~(Cardinality(s) > n + 1)
    <3>1. Cardinality(s) \in Nat
      BY <1>2, RemovePick
    <3> QED BY <1>2, <3>1
  <2>2. g[s] = f[Pick(s)] + g[s \ {Pick(s)}]
    BY <1>1, <1>2, <2>1 DEF Bounded
  <2> QED BY <1>2, <2>1, <2>2
<1>3. h[{}] = 0 /\ g[{}] = 0
  BY <1>1 DEF Bounded
<1>4. ASSUME NEW s \in SUBSET S, Cardinality(s) <= n + 1, s # {}
      PROVE  g[s \ {Pick(s)}] = h[s \ {Pick(s)}]
  <2>1. Cardinality(s \ {Pick(s)}) <= n /\ s \ {Pick(s)} \in SUBSET S
    BY <1>4, RemovePick
  <2>2. CASE s \ {Pick(s)} = {}
    BY <1>3, <2>2
  <2>3. CASE s \ {Pick(s)} # {}
    BY ONLY <1>2, <2>1, <2>3
  <2> QED BY <2>2, <2>3
<1>5. ASSUME NEW s \in SUBSET S
      PROVE  h[s] = IF s = {} \/ Cardinality(s) > n + 1 THEN 0
                    ELSE f[Pick(s)] + h[s \ {Pick(s)}]
  <2>1. CASE s = {} \/ Cardinality(s) > n + 1
    BY <2>1
  <2>2. CASE s # {} /\ ~(Cardinality(s) > n + 1)
    <3>1. Cardinality(s) \in Nat
      BY <2>2, RemovePick
    <3>2. Cardinality(s) <= n + 1
      BY <2>2, <3>1
    <3> QED BY <1>4, <2>2, <3>2
  <2> QED BY <2>1, <2>2
<1>6. h = [s \in SUBSET S |-> IF s = {} \/ Cardinality(s) > n + 1 THEN 0
                              ELSE f[Pick(s)] + h[s \ {Pick(s)}]]
  BY <1>5
<1> QED BY <1>6 DEF Bounded

\* Induction along the recursion: from a set without the element it picks to the set.
LEMMA PickInduction ==
    ASSUME NEW S, IsFiniteSet(S), NEW F, F \subseteq SUBSET S, {} \in F,
           \A T \in SUBSET S : T # {} /\ T \ {Pick(T)} \in F => T \in F
    PROVE  \A T \in SUBSET S : T \in F
<1> DEFINE G == (SUBSET S) \ F
<1> SUFFICES ASSUME G # {} PROVE FALSE
  OBVIOUS
<1>1. G \subseteq SUBSET S
  OBVIOUS
<1> HIDE DEF G
<1>2. PICK T \in G : \A U \in G : U \subseteq T => U = T
  BY <1>1, SmallestSubset
<1>3. T \in SUBSET S /\ T # {} /\ T \notin F
  BY DEF G
<1>4. Pick(T) \in T
  BY <1>3 DEF Pick
<1>5. T \ {Pick(T)} \in F
  BY <1>2, <1>3, <1>4 DEF G
<1> QED BY <1>3, <1>5

\* Induction from all the sets with one element less.
LEMMA AllInduction ==
    ASSUME NEW S, IsFiniteSet(S), NEW F, F \subseteq SUBSET S, {} \in F,
           \A T \in SUBSET S : T # {} /\ (\A x \in T : T \ {x} \in F) => T \in F
    PROVE  \A T \in SUBSET S : T \in F
<1> DEFINE G == (SUBSET S) \ F
<1> SUFFICES ASSUME G # {} PROVE FALSE
  OBVIOUS
<1>1. G \subseteq SUBSET S
  OBVIOUS
<1> HIDE DEF G
<1>2. PICK T \in G : \A U \in G : U \subseteq T => U = T
  BY <1>1, SmallestSubset
<1>3. T \in SUBSET S /\ T # {} /\ T \notin F
  BY DEF G
<1>4. ASSUME NEW x \in T PROVE T \ {x} \in F
  BY <1>2, <1>3 DEF G
<1> QED BY <1>3, <1>4

\* The recursion that defines the sum over the subsets of a finite set has a
\* solution.
LEMMA RecursionExists ==
    ASSUME NEW f, NEW S, IsFiniteSet(S)
    PROVE  \E g : Recursion(f, S, g)
<1> DEFINE T == {n \in Nat : \E g : Bounded(f, S, n, g)}
<1>1. 0 \in T
  <2> DEFINE g == [s \in SUBSET S |-> 0]
  <2>1. ASSUME NEW s \in SUBSET S, s # {} PROVE Cardinality(s) > 0
    BY <2>1, RemovePick
  <2>2. g = [s \in SUBSET S |-> IF s = {} \/ Cardinality(s) > 0 THEN 0
                                ELSE f[Pick(s)] + g[s \ {Pick(s)}]]
    BY <2>1
  <2>3. Bounded(f, S, 0, g)
    BY <2>2 DEF Bounded
  <2> QED BY <2>3
<1>2. \A n \in T : n + 1 \in T
  BY BoundedExists
<1>3. Nat \subseteq T
  <2>1. Counting(T)
    BY <1>1, <1>2 DEF Counting
  <2> QED BY <2>1, AllNaturals
<1>4. Cardinality(S) \in Nat
  BY FS_CardinalityType
<1>5. PICK g : Bounded(f, S, Cardinality(S), g)
  BY <1>3, <1>4
<1>6. \A s \in SUBSET S : ~(Cardinality(s) > Cardinality(S))
  <2> SUFFICES ASSUME NEW s \in SUBSET S PROVE ~(Cardinality(s) > Cardinality(S))
    OBVIOUS
  <2>1. IsFiniteSet(s) /\ Cardinality(s) <= Cardinality(S)
    BY FS_Subset
  <2>2. Cardinality(s) \in Nat
    BY <2>1, FS_CardinalityType
  <2> QED BY <1>4, <2>1, <2>2
<1>7. Recursion(f, S, g)
  BY <1>5, <1>6 DEF Bounded, Recursion
<1> QED BY <1>7

\* Two solutions of the recursion agree wherever both are defined.
LEMMA RecursionUnique ==
    ASSUME NEW f, NEW S, IsFiniteSet(S), NEW T, T \subseteq S,
           NEW g, Recursion(f, S, g), NEW h, Recursion(f, T, h)
    PROVE  h[T] = g[T]
<1> DEFINE F == {s \in SUBSET T : h[s] = g[s]}
<1>1. IsFiniteSet(T)
  BY FS_Subset
<1>2. {} \in F
  BY DEF Recursion
<1>3. ASSUME NEW s \in SUBSET T, s # {}, s \ {Pick(s)} \in F PROVE s \in F
  BY <1>3 DEF Recursion
<1>4. F \subseteq SUBSET T
  OBVIOUS
<1> HIDE DEF F
<1>5. T \in F
  BY <1>1, <1>2, <1>3, <1>4, PickInduction
<1> QED BY <1>5 DEF F

\* The sum over nothing.
LEMMA SumEmpty ==
    ASSUME NEW f PROVE SumFunctionOnSet(f, {}) = 0
<1>1. IsFiniteSet({})
  BY FS_EmptySet
<1>2. PICK g : Recursion(f, {}, g) /\ SumFunctionOnSet(f, {}) = g[{}]
  BY <1>1, RecursionExists, Unfold
<1> QED BY <1>2 DEF Recursion

\* The sum in the order in which the fold goes through the set.
LEMMA SumPick ==
    ASSUME NEW f, NEW S, IsFiniteSet(S), S # {}
    PROVE  SumFunctionOnSet(f, S) = f[Pick(S)] + SumFunctionOnSet(f, S \ {Pick(S)})
<1> DEFINE T == S \ {Pick(S)}
<1>1. IsFiniteSet(T) /\ T \subseteq S
  BY FS_Subset
<1>2. PICK g : Recursion(f, S, g) /\ SumFunctionOnSet(f, S) = g[S]
  BY RecursionExists, Unfold
<1>3. PICK h : Recursion(f, T, h) /\ SumFunctionOnSet(f, T) = h[T]
  BY <1>1, RecursionExists, Unfold
<1>4. h[T] = g[T]
  BY <1>1, <1>2, <1>3, RecursionUnique
<1>5. g[S] = f[Pick(S)] + g[T]
  BY <1>2 DEF Recursion
<1> QED BY <1>2, <1>3, <1>4, <1>5

-----------------------------------------------------------------------------
(* Sums of integers.  The functions may be defined on more than S.          *)

IntegerOn(f, S) == \A x \in S : f[x] \in Int

\* A sum of integers is an integer.
LEMMA SumTypes ==
    ASSUME NEW S, IsFiniteSet(S), NEW f, IntegerOn(f, S)
    PROVE  \A T \in SUBSET S : SumFunctionOnSet(f, T) \in Int
<1> DEFINE F == {T \in SUBSET S : SumFunctionOnSet(f, T) \in Int}
<1>1. F \subseteq SUBSET S /\ {} \in F
  BY SumEmpty
<1>2. ASSUME NEW T \in SUBSET S, T # {}, T \ {Pick(T)} \in F PROVE T \in F
  <2>1. IsFiniteSet(T) /\ Pick(T) \in T
    BY <1>2, FS_Subset DEF Pick
  <2>2. SumFunctionOnSet(f, T) = f[Pick(T)] + SumFunctionOnSet(f, T \ {Pick(T)})
    BY <1>2, <2>1, SumPick
  <2> QED BY <1>2, <2>1, <2>2 DEF IntegerOn
<1> HIDE DEF F
<1>3. \A T \in SUBSET S : T \in F
  BY <1>1, <1>2, PickInduction
<1> QED BY <1>3 DEF F

\* Exchanging two summands.
LEMMA Rotate ==
    ASSUME NEW a \in Int, NEW b \in Int, NEW s \in Int, NEW u, NEW v, NEW t,
           t = a + u, u = b + s, v = a + s
    PROVE  t = b + v
OBVIOUS

\* Any element may be taken out first, in every subset.
LEMMA SumRemoves ==
    ASSUME NEW S, IsFiniteSet(S), NEW f, IntegerOn(f, S)
    PROVE  \A T \in SUBSET S : \A x \in T :
              SumFunctionOnSet(f, T) = f[x] + SumFunctionOnSet(f, T \ {x})
<1> DEFINE F == {T \in SUBSET S : \A x \in T :
                    SumFunctionOnSet(f, T) = f[x] + SumFunctionOnSet(f, T \ {x})}
<1>1. F \subseteq SUBSET S /\ {} \in F
  OBVIOUS
<1>2. ASSUME NEW T \in SUBSET S, T # {}, \A y \in T : T \ {y} \in F PROVE T \in F
  <2> DEFINE p == Pick(T)
  <2>1. IsFiniteSet(T) /\ p \in T
    BY <1>2, FS_Subset DEF Pick
  <2>2. SumFunctionOnSet(f, T) = f[p] + SumFunctionOnSet(f, T \ {p})
    BY <1>2, <2>1, SumPick
  <2> HIDE DEF p
  <2>3. ASSUME NEW x \in T, x # p
        PROVE  SumFunctionOnSet(f, T) = f[x] + SumFunctionOnSet(f, T \ {x})
    <3> DEFINE U == (T \ {p}) \ {x}
    <3>1. SumFunctionOnSet(f, T \ {p}) = f[x] + SumFunctionOnSet(f, U)
      BY <1>2, <2>1, <2>3
    <3>2. SumFunctionOnSet(f, T \ {x}) = f[p] + SumFunctionOnSet(f, U)
      <4>1. U = (T \ {x}) \ {p}
        OBVIOUS
      <4> QED BY <1>2, <2>1, <2>3, <4>1
    <3>3. U \in SUBSET S
      BY <1>2
    <3> HIDE DEF U
    <3>4. SumFunctionOnSet(f, U) \in Int
      BY <3>3, SumTypes
    <3>5. f[x] \in Int /\ f[p] \in Int
      BY <2>1 DEF IntegerOn
    <3> QED BY ONLY <2>2, <3>1, <3>2, <3>4, <3>5, Rotate
  <2> QED BY <2>2, <2>3
<1> HIDE DEF F
<1>3. \A T \in SUBSET S : T \in F
  BY <1>1, <1>2, AllInduction
<1> QED BY <1>3 DEF F

\* A sum of integers is one, and any of its terms may be taken out.
LEMMA SumType ==
    ASSUME NEW S, IsFiniteSet(S), NEW f, IntegerOn(f, S)
    PROVE  SumFunctionOnSet(f, S) \in Int
<1>1. S \in SUBSET S
  OBVIOUS
<1> QED BY <1>1, SumTypes

\* Any element may be taken out first.
LEMMA SumRemove ==
    ASSUME NEW S, IsFiniteSet(S), NEW f, IntegerOn(f, S), NEW x \in S
    PROVE  SumFunctionOnSet(f, S) = f[x] + SumFunctionOnSet(f, S \ {x})
<1>1. S \in SUBSET S
  OBVIOUS
<1> QED BY <1>1, SumRemoves

\* A sum of terms that are not negative is not negative.
LEMMA SumNonnegative ==
    ASSUME NEW S, IsFiniteSet(S), NEW f, \A x \in S : f[x] \in Nat
    PROVE  SumFunctionOnSet(f, S) \in Nat
<1> DEFINE F == {T \in SUBSET S : SumFunctionOnSet(f, T) \in Nat}
<1>1. F \subseteq SUBSET S /\ {} \in F
  BY SumEmpty
<1>2. ASSUME NEW T \in SUBSET S, T # {}, T \ {Pick(T)} \in F PROVE T \in F
  <2>1. IsFiniteSet(T) /\ Pick(T) \in T
    BY <1>2, FS_Subset DEF Pick
  <2>2. SumFunctionOnSet(f, T) = f[Pick(T)] + SumFunctionOnSet(f, T \ {Pick(T)})
    BY <1>2, <2>1, SumPick
  <2> QED BY <1>2, <2>1, <2>2
<1> HIDE DEF F
<1>3. S \in F
  BY <1>1, <1>2, PickInduction
<1> QED BY <1>3 DEF F

\* Pairing the summands of two sums.
LEMMA Regroup ==
    ASSUME NEW a \in Int, NEW b \in Int, NEW s \in Int, NEW t \in Int, NEW c, NEW u,
           c = a + b, u = s + t
    PROVE  c + u = (a + s) + (b + t)
OBVIOUS

\* The sum of the sums of two functions.
LEMMA SumAdd ==
    ASSUME NEW S, IsFiniteSet(S), NEW f, IntegerOn(f, S), NEW g, IntegerOn(g, S),
           NEW h, \A x \in S : h[x] = f[x] + g[x]
    PROVE  SumFunctionOnSet(h, S) = SumFunctionOnSet(f, S) + SumFunctionOnSet(g, S)
<1> DEFINE F == {T \in SUBSET S : SumFunctionOnSet(h, T) =
                                     SumFunctionOnSet(f, T) + SumFunctionOnSet(g, T)}
<1>1. F \subseteq SUBSET S /\ {} \in F
  BY SumEmpty
<1>2. ASSUME NEW T \in SUBSET S, T # {}, T \ {Pick(T)} \in F PROVE T \in F
  <2> DEFINE p == Pick(T)
             U == T \ {p}
  <2>1. IsFiniteSet(T) /\ p \in T /\ U \in SUBSET S
    BY <1>2, FS_Subset DEF Pick
  <2>2. /\ SumFunctionOnSet(f, T) = f[p] + SumFunctionOnSet(f, U)
        /\ SumFunctionOnSet(g, T) = g[p] + SumFunctionOnSet(g, U)
        /\ SumFunctionOnSet(h, T) = h[p] + SumFunctionOnSet(h, U)
    BY <1>2, <2>1, SumPick
  <2>3. SumFunctionOnSet(h, U) = SumFunctionOnSet(f, U) + SumFunctionOnSet(g, U)
    BY <1>2
  <2> HIDE DEF p, U
  <2>4. SumFunctionOnSet(f, U) \in Int /\ SumFunctionOnSet(g, U) \in Int
    BY <2>1, SumTypes
  <2>5. h[p] = f[p] + g[p] /\ f[p] \in Int /\ g[p] \in Int
    BY <2>1 DEF IntegerOn
  <2>6. SumFunctionOnSet(h, T) = SumFunctionOnSet(f, T) + SumFunctionOnSet(g, T)
    BY ONLY <2>2, <2>3, <2>4, <2>5, Regroup
  <2> QED BY <2>6
<1> HIDE DEF F
<1>3. S \in F
  BY <1>1, <1>2, PickInduction
<1> QED BY <1>3 DEF F

\* Sums compare as their terms do.
LEMMA SumMonotone ==
    ASSUME NEW S, IsFiniteSet(S), NEW f, IntegerOn(f, S), NEW g, IntegerOn(g, S),
           \A x \in S : f[x] <= g[x]
    PROVE  SumFunctionOnSet(f, S) <= SumFunctionOnSet(g, S)
<1> DEFINE d == [x \in S |-> g[x] - f[x]]
<1>1. \A x \in S : d[x] \in Nat /\ g[x] = f[x] + d[x]
  BY DEF IntegerOn
<1> HIDE DEF d
<1>2. SumFunctionOnSet(d, S) \in Nat
  BY <1>1, SumNonnegative
<1>3. SumFunctionOnSet(g, S) = SumFunctionOnSet(f, S) + SumFunctionOnSet(d, S)
  BY <1>1, SumAdd DEF IntegerOn
<1>4. SumFunctionOnSet(f, S) \in Int
  BY SumType
<1> QED BY <1>2, <1>3, <1>4

\* The same terms, the same sum.
LEMMA SumSame ==
    ASSUME NEW S, IsFiniteSet(S), NEW f, IntegerOn(f, S), NEW g,
           \A x \in S : f[x] = g[x]
    PROVE  SumFunctionOnSet(f, S) = SumFunctionOnSet(g, S)
<1>1. IntegerOn(g, S) /\ \A x \in S : f[x] <= g[x] /\ g[x] <= f[x]
  BY DEF IntegerOn
<1>2. /\ SumFunctionOnSet(f, S) <= SumFunctionOnSet(g, S)
      /\ SumFunctionOnSet(g, S) <= SumFunctionOnSet(f, S)
  BY <1>1, SumMonotone
<1>3. SumFunctionOnSet(f, S) \in Int /\ SumFunctionOnSet(g, S) \in Int
  BY <1>1, SumType
<1> QED BY <1>2, <1>3

\* A larger term makes the sum larger.
LEMMA SumStrict ==
    ASSUME NEW S, IsFiniteSet(S), NEW f, IntegerOn(f, S), NEW g, IntegerOn(g, S),
           \A x \in S : f[x] <= g[x], NEW z \in S, f[z] < g[z]
    PROVE  SumFunctionOnSet(f, S) < SumFunctionOnSet(g, S)
<1> DEFINE U == S \ {z}
<1>1. IsFiniteSet(U) /\ IntegerOn(f, U) /\ IntegerOn(g, U) /\ \A x \in U : f[x] <= g[x]
  BY FS_Subset DEF IntegerOn
<1>2. /\ SumFunctionOnSet(f, S) = f[z] + SumFunctionOnSet(f, U)
      /\ SumFunctionOnSet(g, S) = g[z] + SumFunctionOnSet(g, U)
  BY SumRemove
<1> HIDE DEF U
<1>3. SumFunctionOnSet(f, U) <= SumFunctionOnSet(g, U)
  BY <1>1, SumMonotone
<1>4. SumFunctionOnSet(f, U) \in Int /\ SumFunctionOnSet(g, U) \in Int
  BY <1>1, SumType
<1>5. f[z] \in Int /\ g[z] \in Int
  BY DEF IntegerOn
<1> QED BY ONLY <1>2, <1>3, <1>4, <1>5, f[z] < g[z]

\* A sum of zeros.
LEMMA SumZero ==
    ASSUME NEW S, IsFiniteSet(S), NEW f, \A x \in S : f[x] = 0
    PROVE  SumFunctionOnSet(f, S) = 0
<1>1. IntegerOn(f, S) /\ \A x \in S : f[x] = f[x] + f[x]
  BY DEF IntegerOn
<1>2. SumFunctionOnSet(f, S) = SumFunctionOnSet(f, S) + SumFunctionOnSet(f, S)
  BY <1>1, SumAdd
<1>3. SumFunctionOnSet(f, S) \in Int
  BY <1>1, SumType
<1>4. \A s \in Int : s = s + s => s = 0
  OBVIOUS
<1> QED BY ONLY <1>2, <1>3, <1>4

\* No term is larger than the sum, if none is negative.
LEMMA SumBoundsTerm ==
    ASSUME NEW S, IsFiniteSet(S), NEW f, \A x \in S : f[x] \in Nat, NEW z \in S
    PROVE  f[z] <= SumFunctionOnSet(f, S)
<1>1. IsFiniteSet(S \ {z}) /\ IntegerOn(f, S)
  BY FS_Subset DEF IntegerOn
<1>2. SumFunctionOnSet(f, S \ {z}) \in Nat
  BY <1>1, SumNonnegative
<1>3. SumFunctionOnSet(f, S) = f[z] + SumFunctionOnSet(f, S \ {z})
  BY <1>1, SumRemove
<1> QED BY <1>2, <1>3

\* A factor of both summands.
LEMMA Distribute ==
    ASSUME NEW c \in Int, NEW a \in Int, NEW s \in Int
    PROVE  c * (a + s) = c * a + c * s
OBVIOUS

\* A common factor.
LEMMA SumScale ==
    ASSUME NEW S, IsFiniteSet(S), NEW f, IntegerOn(f, S), NEW c \in Int,
           NEW h, \A x \in S : h[x] = c * f[x]
    PROVE  SumFunctionOnSet(h, S) = c * SumFunctionOnSet(f, S)
<1> DEFINE F == {T \in SUBSET S : SumFunctionOnSet(h, T) = c * SumFunctionOnSet(f, T)}
<1>1. F \subseteq SUBSET S /\ {} \in F
  BY SumEmpty
<1>2. ASSUME NEW T \in SUBSET S, T # {}, T \ {Pick(T)} \in F PROVE T \in F
  <2> DEFINE p == Pick(T)
             U == T \ {p}
  <2>1. IsFiniteSet(T) /\ p \in T /\ U \in SUBSET S
    BY <1>2, FS_Subset DEF Pick
  <2>2. /\ SumFunctionOnSet(f, T) = f[p] + SumFunctionOnSet(f, U)
        /\ SumFunctionOnSet(h, T) = h[p] + SumFunctionOnSet(h, U)
    BY <1>2, <2>1, SumPick
  <2>3. SumFunctionOnSet(h, U) = c * SumFunctionOnSet(f, U)
    BY <1>2
  <2> HIDE DEF p, U
  <2>4. SumFunctionOnSet(f, U) \in Int
    BY <2>1, SumTypes
  <2>5. h[p] = c * f[p] /\ f[p] \in Int
    BY <2>1 DEF IntegerOn
  <2>6. SumFunctionOnSet(h, T) = c * SumFunctionOnSet(f, T)
    BY ONLY <2>2, <2>3, <2>4, <2>5, Distribute, c \in Int
  <2> QED BY <2>6
<1> HIDE DEF F
<1>3. S \in F
  BY ONLY <1>1, <1>2, PickInduction, IsFiniteSet(S)
<1> QED BY <1>3 DEF F

\* Counting by ones.
LEMMA SumOfOnes ==
    ASSUME NEW S, IsFiniteSet(S), NEW A, A \subseteq S,
           NEW f, \A x \in S : f[x] = IF x \in A THEN 1 ELSE 0
    PROVE  SumFunctionOnSet(f, S) = Cardinality(A)
<1> DEFINE F == {T \in SUBSET S : SumFunctionOnSet(f, T) = Cardinality(A \cap T)}
<1>1. F \subseteq SUBSET S /\ {} \in F
  <2>1. A \cap {} = {}
    OBVIOUS
  <2> QED BY <2>1, SumEmpty, FS_EmptySet
<1>2. ASSUME NEW T \in SUBSET S, T # {}, T \ {Pick(T)} \in F PROVE T \in F
  <2> DEFINE p == Pick(T)
             U == T \ {p}
  <2>1. IsFiniteSet(T) /\ p \in T /\ U \in SUBSET S
    BY <1>2, FS_Subset DEF Pick
  <2>2. SumFunctionOnSet(f, T) = f[p] + SumFunctionOnSet(f, U)
    BY <1>2, <2>1, SumPick
  <2>3. SumFunctionOnSet(f, U) = Cardinality(A \cap U)
    BY <1>2
  <2>4. IsFiniteSet(A \cap T)
    BY <2>1, FS_Subset
  <2>5. A \cap U = (A \cap T) \ {p}
    OBVIOUS
  <2> HIDE DEF p, U
  <2>6. /\ Cardinality(A \cap U) =
             IF p \in A \cap T THEN Cardinality(A \cap T) - 1 ELSE Cardinality(A \cap T)
        /\ Cardinality(A \cap T) \in Nat
    BY <2>4, <2>5, FS_RemoveElement, FS_CardinalityType
  <2>7. f[p] = IF p \in A \cap T THEN 1 ELSE 0
    BY <2>1
  <2>8. SumFunctionOnSet(f, T) = Cardinality(A \cap T)
    BY ONLY <2>2, <2>3, <2>6, <2>7
  <2> QED BY <2>8
<1> HIDE DEF F
<1>3. S \in F
  BY <1>1, <1>2, PickInduction
<1>4. A \cap S = A
  OBVIOUS
<1> QED BY <1>3, <1>4 DEF F
=============================================================================
