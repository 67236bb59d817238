--------------------------- MODULE SchedulerProofs ---------------------------
(***************************************************************************)
(* What every plan of Compute has, for any number of types, any demand and *)
(* any maximum: the budget is used in full and never exceeded, no type gets*)
(* more workers than tasks, and the rounding is fair.                      *)
(***************************************************************************)
EXTENDS Scheduler, Sums

USE TypesAssumption

Weights == [TaskTypes -> Nat]

Limit(max) == IF max < 1 THEN 1 ELSE max

-----------------------------------------------------------------------------
(* Work, target, and sums over the types.                                   *)

\* The lemmas of Sums for functions of the types.
LEMMA TypeSum ==
    ASSUME NEW f, DOMAIN f = TaskTypes
    PROVE  SumFunction(f) = SumFunctionOnSet(f, TaskTypes)
BY DEF SumFunction

\* The sum of weights is a number, and no weight exceeds it.
LEMMA WeightSum ==
    ASSUME NEW f \in Weights
    PROVE  /\ SumFunction(f) = SumFunctionOnSet(f, TaskTypes)
           /\ SumFunction(f) \in Nat
           /\ IntegerOn(f, TaskTypes)
           /\ \A ty \in TaskTypes : f[ty] <= SumFunction(f)
<1>1. SumFunction(f) = SumFunctionOnSet(f, TaskTypes)
  BY TypeSum DEF Weights
<1>2. \A ty \in TaskTypes : f[ty] \in Nat
  BY DEF Weights
<1>3. SumFunctionOnSet(f, TaskTypes) \in Nat
  BY <1>2, SumNonnegative
<1>4. \A ty \in TaskTypes : f[ty] <= SumFunctionOnSet(f, TaskTypes)
  BY <1>2, SumBoundsTerm
<1> QED BY <1>1, <1>2, <1>3, <1>4 DEF IntegerOn

\* The work of each type, its scheduled and running tasks, is a weight.
LEMMA WorkIsWeight ==
    ASSUME NEW demand \in [TaskTypes -> [scheduled : Nat, running : Nat, workers : Nat]]
    PROVE  WorkOf(demand) \in Weights
<1>1. ASSUME NEW ty \in TaskTypes PROVE Work(demand[ty]) \in Nat
  BY DEF Work, Least
<1> QED BY <1>1 DEF WorkOf, Weights

\* The target exceeds neither the work nor the maximum.
LEMMA TargetWithinLimit ==
    ASSUME NEW work \in Weights, NEW max \in Int
    PROVE  /\ Target(work, max) \in Nat
           /\ Target(work, max) <= SumFunction(work)
           /\ Target(work, max) <= Limit(max)
<1>1. SumFunction(work) \in Nat
  BY WeightSum
<1> QED BY <1>1 DEF Target, Least, Limit

-----------------------------------------------------------------------------
(* The order of the first sort, and the baseline.                           *)

Before(work, ty) == {s \in TaskTypes : Precedes(work, s, ty)}

\* The order in which types are served, most work first and then by name, is strict
\* and total.
LEMMA OrderIsStrict ==
    ASSUME NEW work \in Weights, NEW a \in TaskTypes, NEW b \in TaskTypes,
           NEW c \in TaskTypes
    PROVE  /\ ~Precedes(work, a, a)
           /\ Precedes(work, a, b) /\ Precedes(work, b, c) => Precedes(work, a, c)
           /\ a = b \/ Precedes(work, a, b) \/ Precedes(work, b, a)
           /\ Precedes(work, a, b) => work[a] >= work[b]
<1>1. work[a] \in Nat /\ work[b] \in Nat /\ work[c] \in Nat
  BY DEF Weights
<1>2. a \in Nat /\ b \in Nat /\ c \in Nat
  OBVIOUS
<1> QED BY <1>1, <1>2 DEF Precedes

\* Any types have a first one and a last one.
LEMMA EndsOfOrder ==
    ASSUME NEW work \in Weights, NEW T \in SUBSET TaskTypes, T # {}
    PROVE  /\ \E m \in T : \A x \in T : x = m \/ Precedes(work, m, x)
           /\ \E m \in T : \A x \in T : x = m \/ Precedes(work, x, m)
<1> DEFINE F == {U \in SUBSET TaskTypes :
                    U # {} => /\ \E m \in U : \A x \in U : x = m \/ Precedes(work, m, x)
                              /\ \E m \in U : \A x \in U : x = m \/ Precedes(work, x, m)}
<1>1. F \subseteq SUBSET TaskTypes /\ {} \in F
  OBVIOUS
<1>2. ASSUME NEW U \in SUBSET TaskTypes, U # {}, U \ {Pick(U)} \in F PROVE U \in F
  <2> DEFINE p == Pick(U)
             V == U \ {p}
  <2>1. p \in U /\ p \in TaskTypes
    BY <1>2 DEF Pick
  <2>2. CASE V = {}
    <3>1. \A x \in U : x = p
      BY <2>2
    <3> QED BY <2>1, <3>1
  <2>3. CASE V # {}
    <3>1. PICK a \in V, z \in V : /\ \A x \in V : x = a \/ Precedes(work, a, x)
                                  /\ \A x \in V : x = z \/ Precedes(work, x, z)
      BY <1>2, <2>3
    <3> HIDE DEF p
    <3>2. a \in U /\ z \in U /\ a \in TaskTypes /\ z \in TaskTypes
      BY <3>1
    <3>3. \E m \in U : \A x \in U : x = m \/ Precedes(work, m, x)
      <4>1. CASE Precedes(work, p, a)
        <5>1. \A x \in U : x = p \/ Precedes(work, p, x)
          BY <2>1, <3>1, <3>2, <4>1, OrderIsStrict
        <5> QED BY <2>1, <5>1
      <4>2. CASE ~Precedes(work, p, a)
        <5>1. \A x \in U : x = a \/ Precedes(work, a, x)
          BY <2>1, <3>1, <3>2, <4>2, OrderIsStrict
        <5> QED BY <3>2, <5>1
      <4> QED BY <4>1, <4>2
    <3>4. \E m \in U : \A x \in U : x = m \/ Precedes(work, x, m)
      <4>1. CASE Precedes(work, z, p)
        <5>1. \A x \in U : x = p \/ Precedes(work, x, p)
          BY <2>1, <3>1, <3>2, <4>1, OrderIsStrict
        <5> QED BY <2>1, <5>1
      <4>2. CASE ~Precedes(work, z, p)
        <5>1. \A x \in U : x = z \/ Precedes(work, x, z)
          BY <2>1, <3>1, <3>2, <4>2, OrderIsStrict
        <5> QED BY <3>2, <5>1
      <4> QED BY <4>1, <4>2
    <3> QED BY <3>3, <3>4
  <2> QED BY <2>2, <2>3
<1> HIDE DEF F
<1>3. \A U \in SUBSET TaskTypes : U \in F
  BY ONLY <1>1, <1>2, PickInduction, TypesAssumption
<1> QED BY <1>3 DEF F

\* How many types come before one is a number.
LEMMA RankType ==
    ASSUME NEW work, NEW ty
    PROVE  /\ IsFiniteSet(Before(work, ty)) /\ Before(work, ty) \subseteq TaskTypes
           /\ Cardinality(Before(work, ty)) \in Nat
<1>1. Before(work, ty) \in SUBSET TaskTypes
  BY DEF Before
<1> QED BY <1>1, FS_Subset, FS_CardinalityType

\* The types the baseline reaches.
Reached(work, target) ==
    {ty \in ActiveTypes(work) : Cardinality(Before(work, ty)) < target}

\* The active types a plan gives a worker.
Served(plan, work) == {ty \in ActiveTypes(work) : plan[ty] >= 1}

\* Either every active type has a slot, or the budget is used up: the types reached
\* are the first ones in the order, as many as there are slots.
LEMMA BaselineReaches ==
    ASSUME NEW work \in Weights, NEW target \in Nat
    PROVE  /\ Reached(work, target) \subseteq TaskTypes
           /\ Cardinality(Reached(work, target)) \in Nat
           /\ Cardinality(Reached(work, target)) <= target
           /\ \/ Cardinality(Reached(work, target)) = target
              \/ Reached(work, target) = ActiveTypes(work)
<1> DEFINE B == Reached(work, target)
           A == ActiveTypes(work)
<1>1. A \in SUBSET TaskTypes /\ B \in SUBSET TaskTypes /\ B \subseteq A
  BY DEF ActiveTypes, Reached
<1>2. IsFiniteSet(B) /\ Cardinality(B) \in Nat
  BY <1>1, FS_Subset, FS_CardinalityType
<1>3. Cardinality(B) <= target
  <2>1. CASE B = {}
    BY <2>1, FS_EmptySet
  <2>2. CASE B # {}
    <3> HIDE DEF B
    <3>1. PICK m \in B : \A x \in B : x = m \/ Precedes(work, x, m)
      BY <1>1, <2>2, EndsOfOrder
    <3>2. B \ {m} \subseteq Before(work, m)
      BY <1>1, <3>1 DEF Before
    <3>3. Cardinality(B \ {m}) = Cardinality(B) - 1
      BY <1>2, FS_RemoveElement
    <3>4. Cardinality(B \ {m}) <= Cardinality(Before(work, m))
      BY <3>2, RankType, FS_Subset
    <3>5. Cardinality(Before(work, m)) < target
      BY DEF B, Reached
    <3> QED BY <1>2, <3>3, <3>4, <3>5, RankType
  <2> QED BY <2>1, <2>2
<1>4. ASSUME B # A PROVE Cardinality(B) >= target
  <2> DEFINE C == A \ B
  <2>1. C # {} /\ C \in SUBSET TaskTypes
    BY <1>1, <1>4
  <2> HIDE DEF C
  <2>2. PICK f \in C : \A x \in C : x = f \/ Precedes(work, f, x)
    BY <2>1, EndsOfOrder
  <2>3. f \in TaskTypes /\ f \in A /\ ~(Cardinality(Before(work, f)) < target)
    BY <1>1 DEF C, Reached
  <2>4. ASSUME NEW s \in Before(work, f) PROVE s \in B
    <3>1. s \in TaskTypes /\ Precedes(work, s, f)
      BY DEF Before
    <3>2. work[s] >= work[f] /\ work[f] > 0 /\ work[s] \in Nat /\ work[f] \in Nat
      BY <2>3, <3>1, OrderIsStrict DEF ActiveTypes, Weights
    <3>3. s \in A
      BY <3>1, <3>2 DEF ActiveTypes
    <3>4. s \notin C
      BY <2>2, <2>3, <3>1, OrderIsStrict
    <3> QED BY <3>3, <3>4 DEF C
  <2>5. Cardinality(Before(work, f)) <= Cardinality(B)
    BY <1>2, <2>4, FS_Subset
  <2> HIDE DEF B
  <2> QED BY <1>2, <2>3, <2>5, RankType
<1> HIDE DEF B
<1>5. Cardinality(B) = target \/ B = A
  BY <1>2, <1>3, <1>4
<1> QED BY <1>1, <1>2, <1>3, <1>5 DEF B

\* The baseline hands out one worker to each type it reaches, and what is then left
\* unmet makes up the rest of the work.
LEMMA BaselineSum ==
    ASSUME NEW work \in Weights, NEW target \in Nat
    PROVE  LET base == Baseline(work, target)
               unmet == [ty \in TaskTypes |-> work[ty] - base[ty]]
           IN  /\ base \in [TaskTypes -> {0, 1}] /\ base \in Weights
               /\ \A ty \in TaskTypes : base[ty] = IF ty \in Reached(work, target) THEN 1 ELSE 0
               /\ SumFunction(base) = Cardinality(Reached(work, target))
               /\ unmet \in Weights
               /\ SumFunction(work) = SumFunction(base) + SumFunction(unmet)
<1> DEFINE base == Baseline(work, target)
           unmet == [ty \in TaskTypes |-> work[ty] - base[ty]]
<1>1. \A ty \in TaskTypes : base[ty] = IF ty \in Reached(work, target) THEN 1 ELSE 0
  BY DEF Baseline, Reached, ActiveTypes, Before
<1>2. base \in [TaskTypes -> {0, 1}]
  BY DEF Baseline
<1>3. base \in Weights
  BY <1>2 DEF Weights
<1>4. SumFunction(base) = Cardinality(Reached(work, target))
  <2>1. Reached(work, target) \subseteq TaskTypes
    BY BaselineReaches
  <2> HIDE DEF base
  <2>2. SumFunctionOnSet(base, TaskTypes) = Cardinality(Reached(work, target))
    BY <1>1, <2>1, SumOfOnes
  <2> QED BY <1>3, <2>2, WeightSum
<1>5. ASSUME NEW ty \in TaskTypes PROVE work[ty] - base[ty] \in Nat
  <2>1. base[ty] = 1 => work[ty] > 0
    BY DEF Baseline
  <2>2. work[ty] \in Nat /\ base[ty] \in {0, 1}
    BY <1>2 DEF Weights
  <2> HIDE DEF base
  <2> QED BY <2>1, <2>2
<1>6. unmet \in Weights
  BY <1>5 DEF Weights
<1>7. SumFunction(work) = SumFunction(base) + SumFunction(unmet)
  <2>1. ASSUME NEW ty \in TaskTypes PROVE work[ty] = base[ty] + unmet[ty]
    BY <1>3 DEF Weights
  <2> HIDE DEF base, unmet
  <2>2. SumFunctionOnSet(work, TaskTypes)
           = SumFunctionOnSet(base, TaskTypes) + SumFunctionOnSet(unmet, TaskTypes)
    BY <1>3, <1>6, <2>1, WeightSum, SumAdd
  <2> QED BY <1>3, <1>6, <2>2, WeightSum
<1> QED BY <1>1, <1>2, <1>3, <1>4, <1>6, <1>7

-----------------------------------------------------------------------------
(* Division.                                                                *)

\* Integer division.
LEMMA DivMod ==
    ASSUME NEW n \in Nat, NEW d \in Nat \ {0}
    PROVE  /\ n \div d \in Nat
           /\ n % d \in 0 .. d - 1
           /\ n = d * (n \div d) + (n % d)
OBVIOUS

\* Products of naturals, which the provers do not find by themselves next to other
\* facts.
LEMMA Product ==
    ASSUME NEW a \in Nat, NEW b \in Nat
    PROVE  a * b \in Nat
OBVIOUS

\* Too few remainders below d to make up more than k times d.
LEMMA Room ==
    ASSUME NEW d \in Nat \ {0}, NEW n \in Int, NEW k \in Nat, NEW m \in Nat,
           d * n = m, m <= (d - 1) * k
    PROVE  n \in 0 .. k
<1>1. n >= 0
  OBVIOUS
<1>2. n <= k
  OBVIOUS
<1> QED BY <1>1, <1>2

\* A share of r out of d by weight w is no more than w, also with one worker more,
\* unless r is all.
LEMMA ShareWithinWeight ==
    ASSUME NEW d \in Nat \ {0}, NEW r \in Nat, r <= d, NEW w \in Nat, NEW q \in Nat,
           NEW m \in 0 .. d - 1, r * w = d * q + m
    PROVE  /\ q <= w
           /\ r < d /\ w > 0 => q + 1 <= w
           /\ r = d => q = w
           /\ w = 0 => q = 0 /\ m = 0
<1>1. q <= w
  OBVIOUS
<1>2. r < d /\ w > 0 => q + 1 <= w
  OBVIOUS
<1>3. r = d => q = w
  OBVIOUS
<1>4. w = 0 => q = 0 /\ m = 0
  OBVIOUS
<1> QED BY <1>1, <1>2, <1>3, <1>4

\* The type with more weight has the greater share, or the same and the greater
\* remainder.
LEMMA MoreWeight ==
    ASSUME NEW d \in Nat \ {0}, NEW r \in Nat \ {0},
           NEW v \in Nat, NEW p \in Nat, NEW k \in 0 .. d - 1, r * v = d * p + k,
           NEW w \in Nat, NEW q \in Nat, NEW m \in 0 .. d - 1, r * w = d * q + m,
           w > v
    PROVE  q > p \/ (q = p /\ m > k)
OBVIOUS

-----------------------------------------------------------------------------
(* The largest-remainder shares.                                            *)

Weighted(weight) == {ty \in TaskTypes : weight[ty] > 0}

\* The share and the remainder of a type are what division by the total weight
\* leaves.
LEMMA ShareOfType ==
    ASSUME NEW weight \in Weights, SumFunction(weight) > 0, NEW r \in Nat,
           NEW ty \in TaskTypes
    PROVE  /\ WholeShare(weight, r, ty) \in Nat
           /\ Remainder(weight, r, ty) \in 0 .. SumFunction(weight) - 1
           /\ r * weight[ty] = SumFunction(weight) * WholeShare(weight, r, ty)
                                  + Remainder(weight, r, ty)
<1> DEFINE d == SumFunction(weight)
<1>1. d \in Nat \ {0} /\ weight[ty] \in Nat
  BY WeightSum DEF Weights
<1>2. r * weight[ty] \in Nat
  BY <1>1, Product
<1> HIDE DEF d
<1> DEFINE n == r * weight[ty]
<1> HIDE DEF n
<1>3. n \in Nat
  BY <1>2 DEF n
<1>4. n \div d \in Nat /\ n % d \in 0 .. d - 1 /\ n = d * (n \div d) + (n % d)
  BY ONLY <1>1, <1>3, DivMod
<1>5. WholeShare(weight, r, ty) = n \div d /\ Remainder(weight, r, ty) = n % d
  BY DEF WholeShare, Remainder, n, d
<1> QED BY <1>4, <1>5 DEF n, d

\* The slots left over after the whole shares are no more than the types with weight,
\* and none if there is a slot for all of the weight.
LEMMA LeftoverBound ==
    ASSUME NEW weight \in Weights, SumFunction(weight) > 0,
           NEW r \in Nat, r <= SumFunction(weight),
           NEW whole, whole = [ty \in TaskTypes |-> WholeShare(weight, r, ty)]
    PROVE  /\ whole \in Weights
           /\ r - SumFunction(whole) \in 0 .. Cardinality(Weighted(weight))
           /\ r = SumFunction(weight) => r - SumFunction(whole) = 0
<1> DEFINE d == SumFunction(weight)
           rem == [ty \in TaskTypes |-> Remainder(weight, r, ty)]
           prod == [ty \in TaskTypes |-> d * whole[ty]]
           all == [ty \in TaskTypes |-> r * weight[ty]]
           one == [ty \in TaskTypes |-> IF ty \in Weighted(weight) THEN 1 ELSE 0]
           bound == [ty \in TaskTypes |-> (d - 1) * one[ty]]
           k == Cardinality(Weighted(weight))
<1>1. d \in Nat \ {0}
  BY WeightSum
<1>2. whole \in Weights
  BY ShareOfType DEF Weights
<1>3. ASSUME NEW ty \in TaskTypes
      PROVE  /\ rem[ty] \in 0 .. d - 1 /\ prod[ty] \in Nat /\ all[ty] \in Nat
             /\ all[ty] = prod[ty] + rem[ty]
             /\ weight[ty] = 0 => rem[ty] = 0
             /\ r = d => whole[ty] = weight[ty]
             /\ one[ty] \in Nat
  <2>1. weight[ty] \in Nat /\ whole[ty] \in Nat /\ whole[ty] = WholeShare(weight, r, ty)
    BY <1>2 DEF Weights
  <2>2. rem[ty] \in 0 .. d - 1 /\ r * weight[ty] = d * whole[ty] + rem[ty]
    BY <2>1, ShareOfType
  <2>3. prod[ty] \in Nat /\ all[ty] \in Nat
    BY <1>1, <2>1, Product
  <2> HIDE DEF d, rem
  <2>4. /\ r = d => whole[ty] = weight[ty]
        /\ weight[ty] = 0 => rem[ty] = 0
    BY <1>1, <2>1, <2>2, ShareWithinWeight DEF d
  <2> QED BY <2>2, <2>3, <2>4
<1>4. all \in Weights /\ prod \in Weights /\ rem \in Weights /\ one \in Weights
  BY <1>3 DEF Weights
<1>5. SumFunctionOnSet(all, TaskTypes) = r * d
  <2>1. \A ty \in TaskTypes : all[ty] = r * weight[ty]
    OBVIOUS
  <2>2. IntegerOn(weight, TaskTypes) /\ r \in Int
    BY WeightSum
  <2> HIDE DEF all
  <2>3. SumFunctionOnSet(all, TaskTypes) = r * SumFunctionOnSet(weight, TaskTypes)
    BY ONLY <2>1, <2>2, SumScale, TypesAssumption
  <2> QED BY <2>3, WeightSum
<1>6. SumFunctionOnSet(prod, TaskTypes) = d * SumFunction(whole)
  <2>1. \A ty \in TaskTypes : prod[ty] = d * whole[ty]
    OBVIOUS
  <2>2. IntegerOn(whole, TaskTypes) /\ d \in Int
    BY <1>1, <1>2, WeightSum
  <2> HIDE DEF prod, d
  <2>3. SumFunctionOnSet(prod, TaskTypes) = d * SumFunctionOnSet(whole, TaskTypes)
    BY ONLY <2>1, <2>2, SumScale, TypesAssumption
  <2> QED BY <1>2, <2>3, WeightSum
<1>7. SumFunctionOnSet(all, TaskTypes)
         = SumFunctionOnSet(prod, TaskTypes) + SumFunctionOnSet(rem, TaskTypes)
  <2>1. \A ty \in TaskTypes : all[ty] = prod[ty] + rem[ty]
    BY <1>3
  <2>2. IntegerOn(prod, TaskTypes) /\ IntegerOn(rem, TaskTypes)
    BY <1>4, WeightSum
  <2> HIDE DEF all, prod, rem
  <2> QED BY ONLY <2>1, <2>2, SumAdd, TypesAssumption
<1>8. SumFunctionOnSet(rem, TaskTypes) \in Nat
  <2> HIDE DEF rem
  <2> QED BY <1>4, WeightSum
<1>9. SumFunctionOnSet(one, TaskTypes) = k
  <2>1. Weighted(weight) \subseteq TaskTypes
    BY DEF Weighted
  <2>2. \A ty \in TaskTypes : one[ty] = IF ty \in Weighted(weight) THEN 1 ELSE 0
    OBVIOUS
  <2> HIDE DEF one
  <2> QED BY <2>1, <2>2, SumOfOnes
<1>10. SumFunctionOnSet(bound, TaskTypes) = (d - 1) * k
  <2>1. \A ty \in TaskTypes : bound[ty] = (d - 1) * one[ty]
    OBVIOUS
  <2>2. d - 1 \in Int /\ IntegerOn(one, TaskTypes)
    BY <1>1, <1>4, WeightSum
  <2> DEFINE c == d - 1
  <2> HIDE DEF bound, one, c
  <2>3. SumFunctionOnSet(bound, TaskTypes) = c * SumFunctionOnSet(one, TaskTypes)
    BY <2>1, <2>2, SumScale DEF c
  <2> QED BY <1>9, <2>3 DEF c
<1>11. SumFunctionOnSet(rem, TaskTypes) <= SumFunctionOnSet(bound, TaskTypes)
  <2>1. ASSUME NEW ty \in TaskTypes PROVE bound[ty] \in Int /\ rem[ty] <= bound[ty]
    <3>1. CASE ty \in Weighted(weight)
      <4>1. bound[ty] = d - 1
        BY <1>1, <3>1
      <4> QED BY <1>1, <1>3, <4>1
    <3>2. CASE ty \notin Weighted(weight)
      <4>1. bound[ty] = 0
        BY <1>1, <3>2
      <4>2. weight[ty] = 0
        BY <3>2 DEF Weighted, Weights
      <4> QED BY <1>3, <4>1, <4>2
    <3> QED BY <3>1, <3>2
  <2> HIDE DEF rem, bound
  <2> QED BY <1>4, <2>1, WeightSum, SumMonotone DEF IntegerOn
<1>12. k \in Nat
  BY FS_Subset, FS_CardinalityType DEF Weighted
<1>13. SumFunction(whole) \in Nat
  BY <1>2, WeightSum
<1>14. r - SumFunction(whole) \in 0 .. k
  <2> DEFINE n == r - SumFunction(whole)
             m == SumFunctionOnSet(rem, TaskTypes)
  <2>1. n \in Int
    BY <1>13
  <2>2. d * n = m /\ m <= (d - 1) * k /\ m \in Nat
    <3> HIDE DEF d, k, rem, all, prod, bound
    <3>1. m \in Nat /\ m <= (d - 1) * k
      BY <1>8, <1>10, <1>11
    <3>2. r * d = d * SumFunction(whole) + m
      BY <1>5, <1>6, <1>7
    <3>3. \A a, b, c, e \in Int : a * b = b * c + e => b * (a - c) = e
      OBVIOUS
    <3> HIDE DEF m
    <3>4. d * n = m
      BY ONLY <1>1, <1>13, <3>1, <3>2, <3>3, r \in Nat DEF n
    <3> QED BY <3>1, <3>4 DEF m
  <2> HIDE DEF d, k, n, m
  <2>3. n \in 0 .. k
    BY <1>1, <1>12, <2>1, <2>2, Room
  <2> QED BY <2>3 DEF n
<1>15. r = d => r - SumFunction(whole) = 0
  <2>1. ASSUME r = d PROVE SumFunction(whole) = d
    <3>1. \A ty \in TaskTypes : whole[ty] = weight[ty]
      BY <1>3, <2>1
    <3>2. SumFunctionOnSet(whole, TaskTypes) = SumFunctionOnSet(weight, TaskTypes)
      BY <1>2, <3>1, WeightSum, SumSame
    <3> QED BY <1>2, <3>2, WeightSum
  <2> QED BY <1>13, <2>1
<1> QED BY <1>2, <1>14, <1>15

\* Shares as fair as whole numbers can be.
Fair(f, weight) ==
    \A s, ty \in TaskTypes :
        /\ weight[s] > weight[ty] => f[s] >= f[ty]
        /\ weight[s] = weight[ty] => f[s] - f[ty] \in {-1, 0, 1}

WithLeftover(whole, S) == [ty \in TaskTypes |-> whole[ty] + (IF ty \in S THEN 1 ELSE 0)]

\* The shares add up to the slots there were, none exceeds its weight, and they are fair.
LEMMA SharesAddUp ==
    ASSUME NEW weight \in Weights, NEW r \in Nat \ {0}, r <= SumFunction(weight),
           NEW extra \in Shared(weight, r)
    PROVE  /\ extra \in Weights
           /\ SumFunction(extra) = r
           /\ \A ty \in TaskTypes : extra[ty] <= weight[ty]
           /\ Fair(extra, weight)
<1> DEFINE d == SumFunction(weight)
           whole == [ty \in TaskTypes |-> WholeShare(weight, r, ty)]
           n == r - SumFunction(whole)
<1>1. d \in Nat \ {0} /\ d > 0
  BY WeightSum
<1>2. PICK S \in LeftoverSets(weight, r, n) : extra = WithLeftover(whole, S)
  BY <1>1 DEF Shared, WithLeftover
<1>3. /\ S \subseteq Weighted(weight) /\ S \in SUBSET TaskTypes /\ Cardinality(S) = n
      /\ \A s \in S, ty \in TaskTypes \ S : weight[ty] > 0 => Outranks(weight, r, s, ty)
  BY <1>2 DEF LeftoverSets, Weighted
<1>4. /\ whole \in Weights /\ n \in Nat /\ (r = d => n = 0)
      /\ SumFunction(whole) \in Nat
  BY <1>1, LeftoverBound, WeightSum
<1>5. IsFiniteSet(S)
  BY <1>3, FS_Subset
<1>6. ASSUME NEW ty \in TaskTypes
      PROVE  /\ whole[ty] \in Nat /\ weight[ty] \in Nat
             /\ Remainder(weight, r, ty) \in 0 .. d - 1
             /\ r * weight[ty] = d * whole[ty] + Remainder(weight, r, ty)
             /\ extra[ty] = whole[ty] + (IF ty \in S THEN 1 ELSE 0)
             /\ extra[ty] \in Nat
  <2>1. whole[ty] \in Nat /\ weight[ty] \in Nat
    BY <1>4 DEF Weights
  <2>2. /\ Remainder(weight, r, ty) \in 0 .. d - 1
        /\ r * weight[ty] = d * whole[ty] + Remainder(weight, r, ty)
    BY <1>1, ShareOfType
  <2>3. extra[ty] = whole[ty] + (IF ty \in S THEN 1 ELSE 0)
    BY <1>2 DEF WithLeftover
  <2> HIDE DEF whole, d
  <2>4. extra[ty] \in Nat
    BY <2>1, <2>3
  <2> QED BY <2>1, <2>2, <2>3, <2>4
<1> HIDE DEF d
<1>7. extra \in Weights
  BY <1>2, <1>6 DEF Weights, WithLeftover
<1>8. SumFunction(extra) = r
  <2> DEFINE given == [ty \in TaskTypes |-> IF ty \in S THEN 1 ELSE 0]
  <2>1. given \in Weights /\ \A ty \in TaskTypes : given[ty] = IF ty \in S THEN 1 ELSE 0
    BY DEF Weights
  <2>2. \A ty \in TaskTypes : extra[ty] = whole[ty] + given[ty]
    BY <1>6
  <2> HIDE DEF given, whole
  <2>3. SumFunctionOnSet(given, TaskTypes) = Cardinality(S)
    BY <1>3, <2>1, SumOfOnes
  <2>4. IntegerOn(whole, TaskTypes) /\ IntegerOn(given, TaskTypes)
    BY <1>4, <2>1, WeightSum
  <2>5. SumFunctionOnSet(extra, TaskTypes)
           = SumFunctionOnSet(whole, TaskTypes) + SumFunctionOnSet(given, TaskTypes)
    BY ONLY <2>2, <2>4, SumAdd, TypesAssumption
  <2>6. SumFunction(extra) = SumFunction(whole) + Cardinality(S)
    BY <1>4, <1>7, <2>3, <2>5, WeightSum
  <2> QED BY <1>3, <1>4, <2>6 DEF n
<1>9. ASSUME NEW ty \in TaskTypes PROVE extra[ty] <= weight[ty]
  <2> DEFINE m == Remainder(weight, r, ty)
             q == whole[ty]
             w == weight[ty]
  <2>1. /\ m \in 0 .. d - 1 /\ q \in Nat /\ w \in Nat
        /\ r * w = d * q + m
    BY <1>6
  <2>2. r <= d
    BY DEF d
  <2>3. ty \in S => w > 0 /\ r # d
    <3>1. ty \in S => w > 0
      BY <1>3 DEF Weighted
    <3>2. r = d => S = {}
      BY <1>3, <1>4, <1>5, FS_EmptySet
    <3> QED BY <3>1, <3>2
  <2>4. extra[ty] = q + (IF ty \in S THEN 1 ELSE 0)
    BY <1>6
  <2> HIDE DEF m, q, w
  <2>5. q <= w /\ (r < d /\ w > 0 => q + 1 <= w)
    BY <1>1, <2>1, <2>2, ShareWithinWeight
  <2>6. extra[ty] <= w
    BY <1>1, <2>1, <2>2, <2>3, <2>4, <2>5
  <2> QED BY <2>6 DEF w
<1>10. ASSUME NEW s \in TaskTypes, NEW ty \in TaskTypes
       PROVE  /\ weight[s] > weight[ty] => extra[s] >= extra[ty]
              /\ weight[s] = weight[ty] => extra[s] - extra[ty] \in {-1, 0, 1}
  <2> DEFINE k == Remainder(weight, r, ty)
             p == whole[ty]
             v == weight[ty]
             m == Remainder(weight, r, s)
             q == whole[s]
             w == weight[s]
  <2>1. /\ m \in 0 .. d - 1 /\ q \in Nat /\ w \in Nat /\ r * w = d * q + m
        /\ k \in 0 .. d - 1 /\ p \in Nat /\ v \in Nat /\ r * v = d * p + k
    BY <1>6
  <2>2. /\ extra[s] = q + (IF s \in S THEN 1 ELSE 0)
        /\ extra[ty] = p + (IF ty \in S THEN 1 ELSE 0)
    BY <1>6
  <2>3. v = w => p = q
    BY DEF WholeShare
  <2>4. ty \in S /\ s \notin S /\ w > 0 => k >= m
    BY <1>3, <2>1 DEF Outranks
  <2> HIDE DEF k, p, v, m, q, w
  <2>5. w > v => q > p \/ (q = p /\ m > k)
    BY ONLY <1>1, <2>1, MoreWeight, r \in Nat \ {0}
  <2>6. w > v => extra[s] >= extra[ty]
    BY ONLY <1>1, <2>1, <2>2, <2>4, <2>5
  <2>7. w = v => extra[s] - extra[ty] \in {-1, 0, 1}
    BY <2>1, <2>2, <2>3
  <2> QED BY <2>6, <2>7 DEF v, w
<1> QED BY <1>7, <1>8, <1>9, <1>10 DEF Fair

-----------------------------------------------------------------------------
(* The plans.                                                               *)

\* scheduler.go:49-60: every plan for a demand uses the budget in full, gives no type
\* more workers than it has work, serves as many types as there are slots for, the
\* first ones in the order, and is fair.
THEOREM PlansAreGood ==
    ASSUME NEW demand \in [TaskTypes -> [scheduled : Nat, running : Nat, workers : Nat]],
           NEW max \in Int, NEW plan \in Plans(demand, max)
    PROVE  LET work == WorkOf(demand)
               target == Target(work, max)
           IN  /\ plan \in Weights
               /\ SumFunction(plan) = target
               /\ SumFunction(plan) <= Limit(max)
               /\ \A ty \in TaskTypes : plan[ty] <= work[ty]
               /\ Cardinality(Served(plan, work)) = Least(target, Cardinality(ActiveTypes(work)))
               /\ \A ty \in Served(plan, work), s \in ActiveTypes(work) \ Served(plan, work) :
                    Precedes(work, ty, s)
               /\ Fair(plan, work)
<1> DEFINE work == WorkOf(demand)
           target == Target(work, max)
           base == Baseline(work, target)
           unmet == [ty \in TaskTypes |-> work[ty] - base[ty]]
           r == target - SumFunction(base)
           B == Reached(work, target)
           A == ActiveTypes(work)
<1>1. PICK extra \in Shared(unmet, r) : plan = [ty \in TaskTypes |-> base[ty] + extra[ty]]
  BY DEF Plans
<1>2. work \in Weights
  BY WorkIsWeight
<1> HIDE DEF work
<1>3. target \in Nat /\ target <= SumFunction(work) /\ target <= Limit(max)
  BY <1>2, TargetWithinLimit
<1> HIDE DEF target
<1>4. /\ base \in [TaskTypes -> {0, 1}] /\ base \in Weights /\ unmet \in Weights
      /\ \A ty \in TaskTypes : base[ty] = IF ty \in B THEN 1 ELSE 0
      /\ SumFunction(base) = Cardinality(B)
      /\ SumFunction(work) = SumFunction(base) + SumFunction(unmet)
  BY <1>2, <1>3, BaselineSum
<1>5. /\ B \subseteq TaskTypes /\ Cardinality(B) \in Nat /\ Cardinality(B) <= target
      /\ Cardinality(B) = target \/ B = A
  BY <1>2, <1>3, BaselineReaches
<1>6. \A ty \in TaskTypes : unmet[ty] = work[ty] - base[ty]
  OBVIOUS
<1>7. r \in Nat /\ r <= SumFunction(unmet) /\ SumFunction(unmet) \in Nat
  BY <1>3, <1>4, <1>5, WeightSum
<1>8. \A ty \in TaskTypes : plan[ty] = base[ty] + extra[ty]
  BY <1>1
<1>9. /\ extra \in Weights /\ SumFunction(extra) = r
      /\ \A ty \in TaskTypes : extra[ty] <= unmet[ty]
      /\ r # 0 => Fair(extra, unmet)
      /\ r = 0 => \A ty \in TaskTypes : extra[ty] = 0
  <2> HIDE DEF unmet, r, base
  <2>1. CASE r = 0
    <3>1. extra = [ty \in TaskTypes |-> 0]
      BY <1>1, <2>1 DEF Shared
    <3>2. extra \in Weights /\ \A ty \in TaskTypes : extra[ty] = 0
      BY <3>1 DEF Weights
    <3>3. SumFunctionOnSet(extra, TaskTypes) = 0
      BY <3>2, SumZero
    <3>4. \A ty \in TaskTypes : unmet[ty] \in Nat
      BY <1>4 DEF Weights
    <3> QED BY <2>1, <3>2, <3>3, <3>4, WeightSum
  <2>2. CASE r # 0
    BY <1>1, <1>4, <1>7, <2>2, SharesAddUp
  <2> QED BY <2>1, <2>2
<1>10. ASSUME NEW ty \in TaskTypes
       PROVE  /\ work[ty] \in Nat /\ base[ty] \in {0, 1} /\ extra[ty] \in Nat
              /\ unmet[ty] = work[ty] - base[ty] /\ unmet[ty] \in Nat
              /\ plan[ty] = base[ty] + extra[ty]
              /\ base[ty] = IF ty \in B THEN 1 ELSE 0
  BY <1>2, <1>4, <1>8, <1>9 DEF Weights
<1> HIDE DEF base, unmet
<1>11. plan \in Weights
  BY <1>1, <1>10 DEF Weights
<1>12. SumFunction(plan) = target
  <2>1. SumFunctionOnSet(plan, TaskTypes)
           = SumFunctionOnSet(base, TaskTypes) + SumFunctionOnSet(extra, TaskTypes)
    <3>1. IntegerOn(base, TaskTypes) /\ IntegerOn(extra, TaskTypes)
      BY <1>4, <1>9, WeightSum
    <3> QED BY ONLY <1>8, <3>1, SumAdd, TypesAssumption
  <2>2. SumFunction(plan) = SumFunction(base) + SumFunction(extra)
    BY <1>4, <1>9, <1>11, <2>1, WeightSum
  <2> QED BY <1>3, <1>4, <1>5, <1>9, <2>2 DEF r
<1>13. \A ty \in TaskTypes : plan[ty] <= work[ty]
  BY <1>9, <1>10
<1>14. Served(plan, work) = B
  <2>1. \A ty \in TaskTypes : plan[ty] >= 1 <=> ty \in B
    <3>1. CASE r = 0
      <4>1. \A ty \in TaskTypes : extra[ty] = 0
        BY <1>9, <3>1
      <4> HIDE DEF B, r
      <4> QED BY <1>10, <4>1
    <3>2. CASE r # 0
      <4>1. B = A
        BY <1>3, <1>4, <1>5, <3>2 DEF r
      <4>2. \A ty \in TaskTypes : ty \in A <=> work[ty] > 0
        BY DEF ActiveTypes
      <4> HIDE DEF A, B, r
      <4> QED BY <1>10, <1>13, <4>1, <4>2
    <3> QED BY <3>1, <3>2
  <2>2. B \subseteq A /\ A \subseteq TaskTypes
    BY DEF Reached, ActiveTypes
  <2> HIDE DEF B
  <2> QED BY <2>1, <2>2 DEF Served
<1>15. /\ Cardinality(B) = Least(target, Cardinality(A))
       /\ \A ty \in B, s \in A \ B : Precedes(work, ty, s)
  <2>1. B \subseteq A /\ A \subseteq TaskTypes /\ IsFiniteSet(A) /\ Cardinality(A) \in Nat
    BY FS_Subset, FS_CardinalityType DEF Reached, ActiveTypes
  <2>2. Cardinality(B) <= Cardinality(A)
    BY <2>1, FS_Subset
  <2>3. ASSUME NEW ty \in B, NEW s \in A \ B
        PROVE  Precedes(work, ty, s)
    <3>1. ty \in TaskTypes /\ s \in TaskTypes
      BY <2>1
    <3>2. Cardinality(Before(work, ty)) < target /\ ~(Cardinality(Before(work, s)) < target)
      BY DEF Reached
    <3>3. SUFFICES ASSUME Precedes(work, s, ty) PROVE FALSE
      BY <1>2, <2>3, <3>1, OrderIsStrict
    <3>4. Before(work, s) \subseteq Before(work, ty)
      BY <1>2, <3>1, <3>3, OrderIsStrict DEF Before
    <3>5. Cardinality(Before(work, s)) <= Cardinality(Before(work, ty))
      BY <3>4, RankType, FS_Subset
    <3> QED BY <1>3, <3>2, <3>5, RankType
  <2>4. Cardinality(B) = Least(target, Cardinality(A))
    <3> HIDE DEF A, B
    <3> QED BY <1>3, <1>5, <2>1, <2>2 DEF Least
  <2> QED BY <2>3, <2>4
<1>16. Fair(plan, work)
  <2> SUFFICES ASSUME NEW s \in TaskTypes, NEW ty \in TaskTypes
               PROVE  /\ work[s] > work[ty] => plan[s] >= plan[ty]
                      /\ work[s] = work[ty] => plan[s] - plan[ty] \in {-1, 0, 1}
    BY DEF Fair
  <2>1. CASE r = 0
    <3>1. plan[s] = base[s] /\ plan[ty] = base[ty]
      BY <1>9, <1>10, <2>1
    <3>2. work[s] > work[ty] /\ ty \in B => s \in B
      <4> SUFFICES ASSUME work[s] > work[ty], ty \in B PROVE s \in B
        OBVIOUS
      <4>1. work[ty] > 0 /\ Cardinality(Before(work, ty)) < target
        BY DEF Reached, ActiveTypes
      <4>2. Before(work, s) \subseteq Before(work, ty)
        <5>1. Precedes(work, s, ty)
          BY DEF Precedes
        <5> QED BY <1>2, <5>1, OrderIsStrict DEF Before
      <4>3. Cardinality(Before(work, s)) <= Cardinality(Before(work, ty))
        BY <4>2, RankType, FS_Subset
      <4>4. work[s] > 0 /\ Cardinality(Before(work, s)) < target
        BY <1>3, <1>10, <4>1, <4>3, RankType
      <4> QED BY <4>4 DEF Reached, ActiveTypes
    <3> HIDE DEF B
    <3> QED BY <1>10, <3>1, <3>2
  <2>2. CASE r # 0
    <3>1. B = A
      BY <1>3, <1>4, <1>5, <2>2 DEF r
    <3>2. \A t \in TaskTypes : base[t] = IF work[t] > 0 THEN 1 ELSE 0
      BY <1>10, <3>1 DEF ActiveTypes
    <3>3. /\ unmet[s] > unmet[ty] => extra[s] >= extra[ty]
          /\ unmet[s] = unmet[ty] => extra[s] - extra[ty] \in {-1, 0, 1}
      BY <1>9, <2>2 DEF Fair
    <3>4. extra[s] <= unmet[s] /\ extra[ty] <= unmet[ty]
      BY <1>9
    <3>5. /\ work[s] \in Nat /\ work[ty] \in Nat /\ extra[s] \in Nat /\ extra[ty] \in Nat
          /\ unmet[s] = work[s] - base[s] /\ unmet[ty] = work[ty] - base[ty]
          /\ plan[s] = base[s] + extra[s] /\ plan[ty] = base[ty] + extra[ty]
          /\ base[s] = IF work[s] > 0 THEN 1 ELSE 0
          /\ base[ty] = IF work[ty] > 0 THEN 1 ELSE 0
      BY <1>10, <3>2
    <3> QED BY ONLY <3>3, <3>4, <3>5
  <2> QED BY <2>1, <2>2
<1>17. SumFunction(plan) <= Limit(max)
  BY <1>3, <1>12
<1>18. /\ Cardinality(Served(plan, work)) = Least(target, Cardinality(A))
       /\ \A ty \in Served(plan, work), s \in A \ Served(plan, work) : Precedes(work, ty, s)
  <2> HIDE DEF A, B
  <2> QED BY ONLY <1>14, <1>15
<1> HIDE DEF B, r
<1> QED BY <1>11, <1>12, <1>13, <1>16, <1>17, <1>18 DEF work, target
=============================================================================
