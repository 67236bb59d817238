-------------------------- MODULE ComputeLoopProofs --------------------------
(***************************************************************************)
(* Proofs about the steps of Compute, for any number of types, any demand  *)
(* and any maximum.                                                        *)
(***************************************************************************)
EXTENDS ComputeLoop, SchedulerProofs

USE MaxAssumption

-----------------------------------------------------------------------------
(* What the state functions are.                                            *)

\* What Compute is called with, and what it derives from it first.
LEMMA DemandTypes ==
    ASSUME ComputeTypeOK
    PROVE  /\ demand \in [TaskTypes -> [scheduled : Nat, running : Nat, workers : Nat]]
           /\ max \in Int
           /\ work \in Weights /\ target \in Nat /\ target <= SumFunction(work)
<1>1. demand \in [TaskTypes -> [scheduled : Nat, running : Nat, workers : Nat]]
  BY DEF ComputeTypeOK, Demands
<1>2. max \in Int
  BY DEF ComputeTypeOK
<1>3. work \in Weights
  BY <1>1, WorkIsWeight DEF work
<1> QED BY <1>1, <1>2, <1>3, TargetWithinLimit DEF target

\* The baseline, what it leaves of the budget and of the work.
LEMMA BaseFacts ==
    ASSUME ComputeTypeOK
    PROVE  /\ Base \in Weights /\ UnmetByBase \in Weights
           /\ SumFunction(Base) \in Nat /\ SumFunction(Base) <= target
           /\ target - SumFunction(Base) <= SumFunction(UnmetByBase)
           /\ \A ty \in TaskTypes : /\ Base[ty] \in Nat /\ work[ty] \in Nat
                                    /\ UnmetByBase[ty] = work[ty] - Base[ty]
                                    /\ Base[ty] <= work[ty]
<1>1. work \in Weights /\ target \in Nat /\ target <= SumFunction(work)
  BY DemandTypes
<1>2. /\ Base \in Weights /\ UnmetByBase \in Weights
      /\ SumFunction(Base) = Cardinality(Reached(work, target))
      /\ SumFunction(work) = SumFunction(Base) + SumFunction(UnmetByBase)
  BY <1>1, BaselineSum DEF Base, UnmetByBase
<1>3. SumFunction(Base) \in Nat /\ SumFunction(UnmetByBase) \in Nat
  BY <1>2, WeightSum
<1>4. SumFunction(Base) <= target
  BY <1>1, <1>2, BaselineReaches
<1>5. target - SumFunction(Base) <= SumFunction(UnmetByBase)
  BY <1>1, <1>2, <1>3
<1>6. ASSUME NEW ty \in TaskTypes
      PROVE  /\ Base[ty] \in Nat /\ work[ty] \in Nat
             /\ UnmetByBase[ty] = work[ty] - Base[ty] /\ Base[ty] <= work[ty]
  <2>1. Base[ty] \in Nat /\ work[ty] \in Nat /\ UnmetByBase[ty] \in Nat
    BY <1>1, <1>2 DEF Weights
  <2>2. UnmetByBase[ty] = work[ty] - Base[ty]
    BY DEF UnmetByBase
  <2> QED BY <2>1, <2>2
<1> QED BY <1>2, <1>3, <1>4, <1>5, <1>6

\* The plans, by what the baseline left.
LEMMA PlansByBase ==
    ASSUME NEW extra \in Shared(UnmetByBase, target - SumFunction(Base))
    PROVE  [ty \in TaskTypes |-> Base[ty] + extra[ty]] \in Plans(demand, max)
BY DEF Plans, Base, UnmetByBase, work, target

\* A plan of the closed formula has what PlansAreGood says.
LEMMA PlanFacts ==
    ASSUME ComputeTypeOK, plan \in Plans(demand, max)
    PROVE  /\ plan \in Weights /\ Total = target
           /\ \A ty \in TaskTypes : plan[ty] <= work[ty]
           /\ Cardinality(Served(plan, work)) = Least(target, Cardinality(ActiveTypes(work)))
           /\ \A ty \in Served(plan, work), s \in ActiveTypes(work) \ Served(plan, work) :
                Precedes(work, ty, s)
           /\ Fair(plan, work)
BY DemandTypes, PlansAreGood DEF work, target, Total

\* While the plan is the baseline, or one of the plans, nothing exceeds its work.
LEMMA UnmetOfBase ==
    ASSUME ComputeTypeOK, plan = Base
    PROVE  Unmet = UnmetByBase
<1>1. \A ty \in TaskTypes : (IF work[ty] > Base[ty] THEN work[ty] - Base[ty] ELSE 0)
                               = work[ty] - Base[ty]
  BY BaseFacts
<1> QED BY <1>1 DEF Unmet, UnmetByBase

\* The sum of a function that is 1 on a set and 0 elsewhere.
LEMMA SumOfSet ==
    ASSUME NEW S \in SUBSET TaskTypes,
           NEW f, f = [u \in TaskTypes |-> IF u \in S THEN 1 ELSE 0]
    PROVE  /\ IsFiniteSet(S) /\ Cardinality(S) \in Nat
           /\ f \in Weights /\ SumFunction(f) = Cardinality(S)
<1>1. IsFiniteSet(S) /\ Cardinality(S) \in Nat
  <2>1. IsFiniteSet(S)
    BY ONLY S \in SUBSET TaskTypes, FS_Subset, TypesAssumption
  <2> QED BY <2>1, FS_CardinalityType
<1>2. f \in Weights /\ \A u \in TaskTypes : f[u] = IF u \in S THEN 1 ELSE 0
  BY DEF Weights
<1>3. SumFunctionOnSet(f, TaskTypes) = Cardinality(S)
  BY ONLY <1>2, S \subseteq TaskTypes, SumOfOnes, TypesAssumption
<1> QED BY <1>1, <1>2, <1>3, WeightSum

-----------------------------------------------------------------------------
(* The baseline loop.                                                       *)

\* When it ends, its types are those whose rank is below the target.
LEMMA BaselineEnds ==
    ASSUME ComputeTypeOK, BaselineSound, pc = "baseline", Total >= target \/ todo = {}
    PROVE  plan = Base
<1> DEFINE A == ActiveTypes(work)
           seen == A \ todo
<1>1. /\ todo \subseteq A
      /\ plan = [ty \in TaskTypes |-> IF ty \in seen THEN 1 ELSE 0]
      /\ \A s \in seen, ty \in todo : Precedes(work, s, ty)
      /\ Cardinality(seen) <= target
  BY DEF BaselineSound
<1>2. work \in Weights /\ target \in Nat
  BY DemandTypes
<1>3. A \subseteq TaskTypes /\ seen \subseteq TaskTypes
  BY DEF ActiveTypes
<1>4. seen \in SUBSET TaskTypes
  BY <1>3
<1> HIDE DEF seen
<1>5. IsFiniteSet(seen) /\ Cardinality(seen) \in Nat /\ Total = Cardinality(seen)
  BY <1>1, <1>4, SumOfSet DEF Total
<1> USE DEF seen
<1>6. ASSUME NEW ty \in seen PROVE Cardinality(Before(work, ty)) < target
  <2>1. ty \in TaskTypes /\ ty \in A
    BY <1>3
  <2>2. Before(work, ty) \subseteq seen \ {ty}
    <3> SUFFICES ASSUME NEW s \in TaskTypes, Precedes(work, s, ty)
                 PROVE  s \in seen /\ s # ty
      BY DEF Before
    <3>1. s # ty /\ work[s] >= work[ty]
      BY <1>2, <2>1, OrderIsStrict
    <3>2. s \in A
      BY <1>2, <2>1, <3>1 DEF ActiveTypes, Weights
    <3>3. s \notin todo
      BY <1>1, <1>2, <2>1, OrderIsStrict
    <3> QED BY <3>1, <3>2, <3>3
  <2>3. IsFiniteSet(seen \ {ty}) /\ Cardinality(seen \ {ty}) = Cardinality(seen) - 1
    BY <1>5, FS_RemoveElement
  <2>4. Cardinality(Before(work, ty)) <= Cardinality(seen \ {ty})
    BY <2>2, <2>3, FS_Subset
  <2> HIDE DEF seen
  <2> QED BY <1>1, <1>2, <1>5, <2>3, <2>4, RankType
<1>7. ASSUME NEW ty \in todo PROVE ~(Cardinality(Before(work, ty)) < target)
  <2>1. seen \subseteq Before(work, ty)
    BY <1>1, <1>3 DEF Before
  <2>2. Cardinality(seen) <= Cardinality(Before(work, ty))
    BY <2>1, RankType, FS_Subset
  <2>3. Cardinality(seen) >= target
    BY <1>5
  <2> HIDE DEF seen
  <2> QED BY <1>2, <1>5, <2>2, <2>3, RankType
<1>8. ASSUME NEW ty \in TaskTypes
      PROVE  (ty \in seen) <=> (work[ty] > 0 /\ Cardinality(Before(work, ty)) < target)
  BY <1>1, <1>6, <1>7 DEF ActiveTypes
<1> HIDE DEF seen
<1>9. Base = [ty \in TaskTypes |-> IF ty \in seen THEN 1 ELSE 0]
  BY <1>8 DEF Base, Baseline, Before
<1> QED BY <1>1, <1>9

\* One turn of the baseline loop gives one type its first worker, while the budget
\* lasts.
LEMMA BaselineStepInv ==
    ASSUME ComputeIInv, BaselineStep
    PROVE  ComputeIInv'
<1> USE DEF ComputeIInv
<1> DEFINE A == ActiveTypes(work)
           seen == A \ todo
<1>1. PICK ty \in todo : /\ \A s \in todo \ {ty} : Precedes(work, ty, s)
                         /\ GiveSlot(ty)
                         /\ todo' = todo \ {ty}
  BY DEF BaselineStep
<1>2. /\ pc = "baseline" /\ pc' = "baseline" /\ Total < target
      /\ UNCHANGED <<demand, max, leftover, rest, weight, rounds>>
      /\ work' = work /\ target' = target
  BY DEF BaselineStep, work, target
<1>3. /\ todo \subseteq A
      /\ plan = [u \in TaskTypes |-> IF u \in seen THEN 1 ELSE 0]
      /\ \A s \in seen, u \in todo : Precedes(work, s, u)
      /\ Cardinality(seen) <= target
  BY <1>2 DEF BaselineSound
<1>4. A \subseteq TaskTypes /\ ty \in TaskTypes /\ plan \in [TaskTypes -> Nat]
  BY <1>3 DEF ActiveTypes, ComputeTypeOK
<1>5. ComputeTypeOK'
  BY <1>1, <1>2, <1>4 DEF ComputeTypeOK, GiveSlot
<1>6. plan' = [u \in TaskTypes |-> IF u \in seen \cup {ty} THEN 1 ELSE 0]
  <2>1. plan' = [u \in TaskTypes |-> IF u = ty THEN plan[u] + 1 ELSE plan[u]]
    BY <1>1, <1>4 DEF GiveSlot
  <2>2. \A u \in TaskTypes : plan[u] = IF u \in seen THEN 1 ELSE 0
    BY <1>3
  <2>3. ty \notin seen
    OBVIOUS
  <2> HIDE DEF seen
  <2>4. \A u \in TaskTypes : (IF u = ty THEN plan[u] + 1 ELSE plan[u])
                             = IF u \in seen \cup {ty} THEN 1 ELSE 0
    BY <2>2, <2>3
  <2> QED BY <2>1, <2>4
<1>7. ActiveTypes(work)' = A /\ A \ todo' = seen \cup {ty} /\ ty \notin seen
  BY <1>1, <1>2, <1>3
<1>8. Cardinality(seen \cup {ty}) <= target
  <2>1. seen \in SUBSET TaskTypes /\ target \in Nat
    BY <1>4, DemandTypes
  <2> HIDE DEF seen
  <2>2. IsFiniteSet(seen) /\ Cardinality(seen) \in Nat /\ Total = Cardinality(seen)
    BY <1>3, <2>1, SumOfSet DEF Total
  <2>3. Cardinality(seen \cup {ty}) = Cardinality(seen) + 1
    BY <1>7, <2>2, FS_AddElement
  <2> QED BY <1>2, <2>1, <2>2, <2>3
<1>9. \A s \in seen \cup {ty}, u \in todo' : Precedes(work, s, u)
  BY <1>1, <1>3
<1>10. BaselineSound'
  BY <1>1, <1>2, <1>3, <1>6, <1>7, <1>8, <1>9 DEF BaselineSound
<1>11. RoundSound' /\ RoundsSound'
  BY <1>2 DEF RoundSound, RoundsSound
<1> QED BY <1>5, <1>10, <1>11

\* After the baseline loop: the baseline of the closed formula, and the first round
\* of shares.
LEMMA BaselineEndInv ==
    ASSUME ComputeIInv, BaselineEnd
    PROVE  ComputeIInv'
<1> USE DEF ComputeIInv
<1>1. /\ pc = "baseline" /\ pc' = "loop" /\ todo' = {} /\ plan' = plan
      /\ UNCHANGED <<demand, max, leftover, rest, weight, rounds>>
  BY DEF BaselineEnd
<1>2. plan = Base
  BY BaselineEnds DEF BaselineEnd
<1>3. Base' = Base
  BY <1>1 DEF Base, work, target
<1>4. ComputeTypeOK'
  BY <1>1 DEF ComputeTypeOK
<1>5. BaselineSound' /\ RoundSound'
  BY <1>1 DEF BaselineSound, RoundSound
<1>6. RoundsSound'
  BY <1>1, <1>2, <1>3 DEF RoundsSound
<1> QED BY <1>4, <1>5, <1>6

-----------------------------------------------------------------------------
(* The round.                                                               *)

Whole == [ty \in TaskTypes |-> WholeShare(weight, rest, ty)]
Seen == Weighted(weight) \ todo

\* What holds while the leftover slots are handed out.
LEMMA RoundFacts ==
    ASSUME ComputeIInv, pc = "leftover"
    PROVE  /\ weight = UnmetByBase /\ weight \in Weights /\ SumFunction(weight) > 0
           /\ rest \in Nat \ {0} /\ rest = target - SumFunction(Base)
           /\ rest <= SumFunction(weight)
           /\ Whole \in Weights /\ SumFunction(Whole) \in Nat
           /\ rest - SumFunction(Whole) \in 0 .. Cardinality(Weighted(weight))
           /\ rest = SumFunction(weight) => rest - SumFunction(Whole) = 0
           /\ todo \subseteq Weighted(weight) /\ Weighted(weight) \in SUBSET TaskTypes
           /\ Seen \in SUBSET TaskTypes
           /\ IsFiniteSet(Seen) /\ Cardinality(Seen) \in Nat
           /\ plan = [ty \in TaskTypes |->
                        Base[ty] + (Whole[ty] + (IF ty \in Seen THEN 1 ELSE 0))]
           /\ leftover = rest - SumFunction(Whole) - Cardinality(Seen)
           /\ \A s \in Seen, ty \in todo : Outranks(weight, rest, s, ty)
<1> USE DEF ComputeIInv
<1>1. /\ weight = UnmetByBase
      /\ todo \subseteq Weighted(weight)
      /\ plan = [ty \in TaskTypes |->
                   Base[ty] + (Whole[ty] + (IF ty \in Seen THEN 1 ELSE 0))]
      /\ leftover = rest - SumFunction(Whole) - Cardinality(Seen)
      /\ \A s \in Seen, ty \in todo : Outranks(weight, rest, s, ty)
  BY DEF RoundSound, Whole, Seen, Weighted
<1>2. rest \in Nat \ {0} /\ rest = target - SumFunction(Base)
  BY DEF RoundsSound, ComputeTypeOK
<1>3. weight \in Weights /\ rest <= SumFunction(weight) /\ SumFunction(weight) \in Nat
  BY <1>1, <1>2, BaseFacts, WeightSum
<1>4. SumFunction(weight) > 0
  BY <1>2, <1>3
<1>5. /\ Whole \in Weights
      /\ rest - SumFunction(Whole) \in 0 .. Cardinality(Weighted(weight))
      /\ rest = SumFunction(weight) => rest - SumFunction(Whole) = 0
  BY <1>2, <1>3, <1>4, LeftoverBound DEF Whole
<1>6. SumFunction(Whole) \in Nat
  BY <1>5, WeightSum
<1>7. Weighted(weight) \in SUBSET TaskTypes /\ Seen \in SUBSET TaskTypes
  BY DEF Weighted, Seen
<1>8. IsFiniteSet(Seen) /\ Cardinality(Seen) \in Nat
  <2>1. IsFiniteSet(Seen)
    BY ONLY <1>7, FS_Subset, TypesAssumption
  <2> QED BY <2>1, FS_CardinalityType
<1> QED BY <1>1, <1>2, <1>3, <1>4, <1>5, <1>6, <1>7, <1>8

\* The function that gives nothing.
LEMMA NothingShared ==
    ASSUME ComputeTypeOK, plan = Base,
           Total >= target \/ SumFunction(UnmetByBase) = 0
    PROVE  plan \in Plans(demand, max)
<1> DEFINE none == [ty \in TaskTypes |-> 0]
<1>1. target \in Nat /\ SumFunction(Base) \in Nat /\ Base \in Weights
      /\ \A ty \in TaskTypes : Base[ty] \in Nat
  BY DemandTypes, BaseFacts
<1>2. target - SumFunction(Base) <= 0 \/ SumFunction(UnmetByBase) = 0
  BY <1>1 DEF Total
<1>3. none \in Shared(UnmetByBase, target - SumFunction(Base))
  BY <1>2 DEF Shared
<1>4. [ty \in TaskTypes |-> Base[ty] + none[ty]] \in Plans(demand, max)
  BY <1>3, PlansByBase
<1>5. \A ty \in TaskTypes : Base[ty] + none[ty] = Base[ty]
  BY <1>1
<1>6. plan = [ty \in TaskTypes |-> Base[ty]]
  BY <1>1 DEF Weights
<1> QED BY <1>4, <1>5, <1>6

\* A round of shares begins: the weights are those of the types not yet satisfied.
LEMMA RoundBeginInv ==
    ASSUME ComputeIInv, RoundBegin
    PROVE  ComputeIInv'
<1> USE DEF ComputeIInv
<1>1. /\ pc = "loop" /\ pc' = "leftover" /\ Total < target
      /\ SumFunction(Unmet) > 0 /\ rest' = target - Total /\ weight' = Unmet
      /\ plan' = [ty \in TaskTypes |-> plan[ty] + WholeShare(Unmet, target - Total, ty)]
      /\ leftover' = target - SumFunction(plan')
      /\ todo' = {ty \in TaskTypes : Unmet[ty] > 0}
      /\ rounds' = rounds + 1 /\ demand' = demand /\ max' = max
  BY DEF RoundBegin
<1>2. rounds = 0 /\ plan = Base
  <2>1. rounds \in {0, 1}
    BY <1>1 DEF RoundsSound
  <2>2. rounds # 1
    <3> SUFFICES ASSUME rounds = 1 PROVE FALSE
      OBVIOUS
    <3>2. plan \in Plans(demand, max)
      BY <1>1 DEF RoundsSound
    <3> QED BY <1>1, <3>2, PlanFacts, DemandTypes
  <2> QED BY <1>1, <2>1, <2>2 DEF RoundsSound
<1>3. /\ Unmet = UnmetByBase /\ work' = work /\ target' = target
      /\ Base' = Base /\ UnmetByBase' = UnmetByBase
  BY <1>1, <1>2, UnmetOfBase DEF work, target, Base, UnmetByBase
<1>4. weight' = UnmetByBase /\ weight' \in Weights /\ SumFunction(weight') > 0
  BY <1>1, <1>3, BaseFacts
<1>5. /\ rest' = target - SumFunction(Base) /\ rest' \in Nat \ {0}
      /\ rest' <= SumFunction(weight')
  BY <1>1, <1>2, <1>4, BaseFacts, DemandTypes DEF Total
<1>6. /\ Whole' \in Weights
      /\ rest' - SumFunction(Whole') \in 0 .. Cardinality(Weighted(weight'))
      /\ \A ty \in TaskTypes : Whole'[ty] \in Nat
  <2>1. Whole' = [ty \in TaskTypes |-> WholeShare(weight', rest', ty)]
    BY DEF Whole
  <2>2. /\ Whole' \in Weights
        /\ rest' - SumFunction(Whole') \in 0 .. Cardinality(Weighted(weight'))
    BY <1>4, <1>5, <2>1, LeftoverBound
  <2> QED BY <2>2 DEF Weights
<1>7. plan' = [ty \in TaskTypes |-> Base[ty] + Whole'[ty]]
  BY <1>1, <1>2, <1>3, <1>5 DEF Whole
<1>8. SumFunction(Whole') \in Nat
  BY <1>6, WeightSum
<1>9. plan' \in Weights /\ SumFunction(plan') = SumFunction(Base) + SumFunction(Whole')
  <2>1. \A ty \in TaskTypes : Base[ty] \in Nat /\ plan'[ty] = Base[ty] + Whole'[ty]
    BY <1>7, BaseFacts
  <2>2. plan' \in Weights
    BY <1>6, <1>7, <2>1 DEF Weights
  <2>3. IntegerOn(Base, TaskTypes) /\ IntegerOn(Whole', TaskTypes)
    BY <1>6, BaseFacts, WeightSum
  <2>4. SumFunctionOnSet(plan', TaskTypes)
           = SumFunctionOnSet(Base, TaskTypes) + SumFunctionOnSet(Whole', TaskTypes)
    BY ONLY <2>1, <2>3, SumAdd, TypesAssumption
  <2> QED BY <1>6, <2>2, <2>4, BaseFacts, WeightSum
<1>10. leftover' = rest' - SumFunction(Whole') /\ leftover' \in Nat
  BY <1>1, <1>5, <1>6, <1>8, <1>9, BaseFacts, DemandTypes
<1>11. todo' = Weighted(weight') /\ todo' \subseteq TaskTypes
  BY <1>1 DEF Weighted
<1>12. ComputeTypeOK'
  <2>1. rounds' \in Nat
    BY <1>1, <1>2
  <2> QED BY <1>1, <1>4, <1>5, <1>9, <1>10, <1>11, <2>1 DEF ComputeTypeOK, Weights
<1>13. BaselineSound'
  BY <1>1 DEF BaselineSound
<1>14. RoundSound'
  <2>1. Seen' = {}
    BY <1>11 DEF Seen
  <2>2. plan' = [ty \in TaskTypes |->
                   Base'[ty] + (Whole'[ty] + (IF ty \in Seen' THEN 1 ELSE 0))]
    <3>1. \A ty \in TaskTypes : Base[ty] + Whole'[ty]
             = Base'[ty] + (Whole'[ty] + (IF ty \in Seen' THEN 1 ELSE 0))
      BY <1>3, <1>6, <2>1, BaseFacts
    <3> QED BY <1>7, <3>1
  <2>3. leftover' = rest' - SumFunction(Whole') - Cardinality(Seen')
    BY <1>5, <1>8, <1>10, <2>1, FS_EmptySet
  <2>4. \A s \in Seen', ty \in todo' : Outranks(weight', rest', s, ty)
    BY <2>1
  <2> QED BY <1>3, <1>4, <1>11, <2>2, <2>3, <2>4 DEF RoundSound, Whole, Seen, Weighted
<1>15. RoundsSound'
  BY <1>1, <1>2, <1>3, <1>5 DEF RoundsSound
<1> QED BY <1>12, <1>13, <1>14, <1>15

\* The rounds end: the budget is used up, or nobody wants more.
LEMMA LoopEndInv ==
    ASSUME ComputeIInv, LoopEnd
    PROVE  ComputeIInv'
<1> USE DEF ComputeIInv
<1>1. /\ pc = "loop" /\ pc' = "done"
      /\ Total >= target \/ SumFunction(Unmet) = 0
      /\ UNCHANGED <<demand, max, plan, todo, leftover, rest, weight, rounds>>
  BY DEF LoopEnd
<1>2. rounds \in {0, 1}
  BY <1>1 DEF RoundsSound
<1>3. plan \in Plans(demand, max)
  <2>1. CASE rounds = 1
    BY <1>1, <2>1 DEF RoundsSound
  <2>2. CASE rounds = 0
    <3>1. plan = Base
      BY <1>1, <2>2 DEF RoundsSound
    <3>2. Unmet = UnmetByBase
      BY <3>1, UnmetOfBase
    <3> QED BY <1>1, <3>1, <3>2, NothingShared
  <2> QED BY <1>2, <2>1, <2>2
<1>4. ComputeTypeOK'
  BY <1>1 DEF ComputeTypeOK
<1>5. BaselineSound' /\ RoundSound' /\ RoundsSound'
  BY <1>1, <1>2, <1>3 DEF BaselineSound, RoundSound, RoundsSound
<1> QED BY <1>4, <1>5

\* One turn of the leftover loop gives the next type by remainder one worker more.
LEMMA LeftoverStepInv ==
    ASSUME ComputeIInv, LeftoverStep
    PROVE  ComputeIInv'
<1> USE DEF ComputeIInv
<1>1. PICK ty \in todo :
         /\ \A s \in todo \ {ty} : Outranks(weight, rest, ty, s)
         /\ IF plan[ty] >= work[ty] THEN UNCHANGED <<plan, leftover>>
            ELSE GiveSlot(ty) /\ leftover' = leftover - 1
         /\ todo' = todo \ {ty}
  BY DEF LeftoverStep
<1>2. /\ pc = "leftover" /\ pc' = "leftover" /\ leftover > 0
      /\ UNCHANGED <<demand, max, rest, weight, rounds>>
      /\ work' = work /\ target' = target /\ Base' = Base /\ UnmetByBase' = UnmetByBase
      /\ Whole' = Whole /\ Weighted(weight') = Weighted(weight)
  BY DEF LeftoverStep, work, target, Base, UnmetByBase, Whole
<1>3. /\ weight = UnmetByBase /\ weight \in Weights /\ SumFunction(weight) > 0
      /\ rest \in Nat \ {0} /\ rest <= SumFunction(weight)
      /\ Whole \in Weights /\ SumFunction(Whole) \in Nat
      /\ rest = SumFunction(weight) => rest - SumFunction(Whole) = 0
      /\ todo \subseteq Weighted(weight) /\ Weighted(weight) \in SUBSET TaskTypes
      /\ Seen \in SUBSET TaskTypes
      /\ IsFiniteSet(Seen) /\ Cardinality(Seen) \in Nat
      /\ plan = [u \in TaskTypes |->
                   Base[u] + (Whole[u] + (IF u \in Seen THEN 1 ELSE 0))]
      /\ leftover = rest - SumFunction(Whole) - Cardinality(Seen)
      /\ \A s \in Seen, u \in todo : Outranks(weight, rest, s, u)
  BY <1>2, RoundFacts
<1>4. /\ ty \in TaskTypes /\ ty \in Weighted(weight) /\ ty \notin Seen
      /\ weight[ty] > 0
  BY <1>3 DEF Weighted, Seen
<1>5. Seen' = Seen \cup {ty}
  BY <1>1, <1>2, <1>4 DEF Seen
<1>6. \A u \in TaskTypes : /\ Base[u] \in Nat /\ Whole[u] \in Nat /\ work[u] \in Nat
                           /\ weight[u] = work[u] - Base[u] /\ weight[u] \in Nat
  BY <1>3, BaseFacts DEF Weights
<1>7. plan[ty] < work[ty]
  <2> DEFINE d == SumFunction(weight)
             m == Remainder(weight, rest, ty)
  <2>1. d \in Nat \ {0} /\ rest \in Nat /\ rest < d
    BY <1>2, <1>3, WeightSum
  <2>2. m \in 0 .. d - 1 /\ rest * weight[ty] = d * Whole[ty] + m
    BY <1>3, <1>4, ShareOfType DEF Whole
  <2> HIDE DEF d, m
  <2>3. Whole[ty] + 1 <= weight[ty]
    <3>1. Whole[ty] \in Nat /\ weight[ty] \in Nat /\ weight[ty] > 0 /\ rest <= d
      BY <1>4, <1>6, <2>1
    <3> QED BY ONLY <2>1, <2>2, <3>1, ShareWithinWeight
  <2>4. plan[ty] = Base[ty] + Whole[ty]
    BY <1>3, <1>4, <1>6
  <2> QED BY <1>4, <1>6, <2>3, <2>4
<1>8. GiveSlot(ty) /\ leftover' = leftover - 1
  <2>1. plan[ty] \in Nat /\ work[ty] \in Nat
    BY <1>4, <1>6 DEF ComputeTypeOK
  <2> QED BY <1>1, <1>7, <2>1
<1>9. plan' = [u \in TaskTypes |->
                 Base[u] + (Whole[u] + (IF u \in Seen \cup {ty} THEN 1 ELSE 0))]
  <2>1. plan' = [u \in TaskTypes |-> IF u = ty THEN plan[u] + 1 ELSE plan[u]]
    BY <1>4, <1>8 DEF GiveSlot, ComputeTypeOK
  <2>2. \A u \in TaskTypes :
           plan[u] = Base[u] + (Whole[u] + (IF u \in Seen THEN 1 ELSE 0))
    BY <1>3
  <2>3. \A u \in TaskTypes : (IF u = ty THEN plan[u] + 1 ELSE plan[u])
           = Base[u] + (Whole[u] + (IF u \in Seen \cup {ty} THEN 1 ELSE 0))
    BY <1>4, <1>6, <2>2
  <2> QED BY <2>1, <2>3
<1>10. Cardinality(Seen') = Cardinality(Seen) + 1
  BY <1>3, <1>4, <1>5, FS_AddElement
<1>11. leftover' = rest - SumFunction(Whole) - Cardinality(Seen')
  BY <1>3, <1>8, <1>10
<1>12. ComputeTypeOK'
  <2>1. plan' \in [TaskTypes -> Nat]
    BY <1>6, <1>9
  <2>2. leftover' \in Nat
    BY <1>2, <1>8 DEF ComputeTypeOK
  <2> QED BY <1>1, <1>2, <2>1, <2>2 DEF ComputeTypeOK
<1>13. RoundSound'
  <2>1. todo' \subseteq Weighted(weight')
    BY <1>1, <1>2, <1>3
  <2>2. \A s \in Seen', u \in todo' : Outranks(weight', rest', s, u)
    BY <1>1, <1>2, <1>3, <1>5
  <2>3. weight' = UnmetByBase'
    BY <1>2, <1>3
  <2>4. plan' = [u \in TaskTypes |->
                   Base'[u] + (Whole'[u] + (IF u \in Seen' THEN 1 ELSE 0))]
    BY <1>2, <1>5, <1>9
  <2>5. leftover' = rest' - SumFunction(Whole') - Cardinality(Seen')
    BY <1>2, <1>11
  <2> QED BY <2>1, <2>2, <2>3, <2>4, <2>5 DEF RoundSound, Whole, Seen, Weighted
<1>14. BaselineSound' /\ RoundsSound'
  BY <1>2 DEF BaselineSound, RoundsSound
<1> QED BY <1>12, <1>13, <1>14

\* When it ends, the types visited are a set that may receive the leftover slots.
LEMMA LeftoverEndInv ==
    ASSUME ComputeIInv, LeftoverEnd
    PROVE  ComputeIInv'
<1> USE DEF ComputeIInv
<1>1. /\ pc = "leftover" /\ pc' = "clamp"
      /\ leftover = 0 \/ todo = {}
      /\ todo' = {} /\ leftover' = 0
      /\ UNCHANGED <<demand, max, plan, rest, weight, rounds>>
  BY DEF LeftoverEnd
<1> DEFINE n == rest - SumFunction(Whole)
<1>2. /\ weight = UnmetByBase /\ weight \in Weights /\ SumFunction(weight) > 0
      /\ rest \in Nat \ {0} /\ rest = target - SumFunction(Base)
      /\ Whole \in Weights /\ n \in 0 .. Cardinality(Weighted(weight))
      /\ todo \subseteq Weighted(weight) /\ Weighted(weight) \in SUBSET TaskTypes
      /\ Seen \in SUBSET TaskTypes /\ Cardinality(Seen) \in Nat
      /\ plan = [u \in TaskTypes |->
                   Base[u] + (Whole[u] + (IF u \in Seen THEN 1 ELSE 0))]
      /\ leftover = n - Cardinality(Seen)
      /\ \A s \in Seen, u \in todo : Outranks(weight, rest, s, u)
  BY <1>1, RoundFacts
<1> HIDE DEF n
<1>3. Cardinality(Seen) = n
  <2>1. CASE leftover = 0
    BY <1>2, <2>1
  <2>2. CASE todo = {}
    <3>1. Seen = Weighted(weight)
      BY <1>2, <2>2 DEF Seen
    <3>2. leftover >= 0
      BY DEF ComputeTypeOK
    <3> QED BY <1>2, <3>1, <3>2
  <2> QED BY <1>1, <2>1, <2>2
<1>4. Seen \in LeftoverSets(weight, rest, n)
  <2>1. Seen \in SUBSET {ty \in TaskTypes : weight[ty] > 0}
    BY DEF Seen, Weighted
  <2>2. \A s \in Seen, ty \in TaskTypes \ Seen :
           weight[ty] > 0 => Outranks(weight, rest, s, ty)
    BY <1>2 DEF Seen, Weighted
  <2> QED BY <1>3, <2>1, <2>2 DEF LeftoverSets
<1> DEFINE extra == [u \in TaskTypes |-> Whole[u] + (IF u \in Seen THEN 1 ELSE 0)]
<1>5. extra \in Shared(UnmetByBase, target - SumFunction(Base))
  <2>1. ~(rest <= 0 \/ SumFunction(weight) = 0)
    BY <1>2
  <2>2. Shared(weight, rest)
           = {[u \in TaskTypes |-> Whole[u] + (IF u \in S THEN 1 ELSE 0)] :
                 S \in LeftoverSets(weight, rest, n)}
    BY <2>1 DEF Shared, Whole, n
  <2>3. extra \in Shared(weight, rest)
    BY <1>4, <2>2
  <2> QED BY <1>2, <2>3
<1>6. plan \in Plans(demand, max)
  <2>1. [u \in TaskTypes |-> Base[u] + extra[u]] \in Plans(demand, max)
    BY <1>5, PlansByBase
  <2>2. \A u \in TaskTypes :
           extra[u] = Whole[u] + (IF u \in Seen THEN 1 ELSE 0)
    OBVIOUS
  <2> HIDE DEF extra
  <2>3. plan = [u \in TaskTypes |-> Base[u] + extra[u]]
    BY <1>2, <2>2
  <2> QED BY <2>1, <2>3
<1>7. ComputeTypeOK'
  BY <1>1 DEF ComputeTypeOK
<1>8. BaselineSound' /\ RoundSound'
  BY <1>1 DEF BaselineSound, RoundSound
<1>9. RoundsSound'
  BY <1>1, <1>6 DEF RoundsSound, Base, work, target
<1> QED BY <1>7, <1>8, <1>9

\* The clamp cuts nothing, and the round made progress.
LEMMA ClampCutsNothing ==
    ASSUME ComputeIInv, pc = "clamp"
    PROVE  /\ Clamped = plan
           /\ ~(SumFunction(Clamped) <= target - rest)
<1> USE DEF ComputeIInv
<1>1. /\ plan \in Plans(demand, max)
      /\ rest > 0 /\ rest \in Nat
  BY DEF RoundsSound, ComputeTypeOK
<1>2. /\ plan \in Weights /\ Total = target /\ target \in Nat /\ work \in Weights
      /\ \A ty \in TaskTypes : plan[ty] <= work[ty]
  BY <1>1, PlanFacts, DemandTypes
<1>3. \A ty \in TaskTypes :
         (IF weight[ty] > 0 THEN Least(plan[ty], work[ty]) ELSE plan[ty]) = plan[ty]
  BY <1>2 DEF Least
<1>4. plan = [ty \in TaskTypes |-> plan[ty]]
  BY <1>2 DEF Weights
<1>5. Clamped = plan
  BY <1>3, <1>4 DEF Clamped
<1> QED BY <1>1, <1>2, <1>5 DEF Total

\* The last step clamps no type: nobody has more workers than tasks.
LEMMA ClampInv ==
    ASSUME ComputeIInv, Clamp
    PROVE  ComputeIInv'
<1> USE DEF ComputeIInv
<1>1. /\ pc = "clamp" /\ pc' = "loop" /\ plan' = plan
      /\ weight' = NoWeight /\ rest' = 0
      /\ UNCHANGED <<demand, max, todo, leftover, rounds>>
  BY ClampCutsNothing DEF Clamp
<1>2. plan \in Plans(demand, max) /\ rounds = 1
  BY <1>1 DEF RoundsSound
<1>3. ComputeTypeOK'
  BY <1>1 DEF ComputeTypeOK, NoWeight
<1>4. BaselineSound' /\ RoundSound'
  BY <1>1 DEF BaselineSound, RoundSound
<1>5. RoundsSound'
  BY <1>1, <1>2 DEF RoundsSound
<1> QED BY <1>3, <1>4, <1>5

\* Compute begins with nothing handed out.
LEMMA ComputeInitInv == ComputeInit => ComputeIInv
<1> SUFFICES ASSUME ComputeInit PROVE ComputeIInv
  OBVIOUS
<1>1. ComputeTypeOK
  BY DEF ComputeInit, ComputeTypeOK, NoWeight, ActiveTypes
<1>2. ActiveTypes(work) \ todo = {}
  BY DEF ComputeInit
<1>3. BaselineSound
  <2>1. Cardinality(ActiveTypes(work) \ todo) <= target
    BY <1>1, <1>2, FS_EmptySet, DemandTypes
  <2>2. plan = [ty \in TaskTypes |-> IF ty \in ActiveTypes(work) \ todo THEN 1 ELSE 0]
    BY <1>2 DEF ComputeInit, NoWeight
  <2> QED BY <1>2, <2>1, <2>2 DEF ComputeInit, BaselineSound
<1>4. RoundSound /\ RoundsSound
  BY DEF ComputeInit, RoundSound, RoundsSound
<1> QED BY <1>1, <1>3, <1>4 DEF ComputeIInv

\* One step per step of Compute.
LEMMA ComputeStepInv == ComputeIInv /\ [ComputeNext]_computeVars => ComputeIInv'
<1> SUFFICES ASSUME ComputeIInv, [ComputeNext]_computeVars PROVE ComputeIInv'
  OBVIOUS
<1>1. CASE BaselineStep   BY <1>1, BaselineStepInv
<1>2. CASE BaselineEnd    BY <1>2, BaselineEndInv
<1>3. CASE RoundBegin     BY <1>3, RoundBeginInv
<1>4. CASE LoopEnd        BY <1>4, LoopEndInv
<1>5. CASE LeftoverStep   BY <1>5, LeftoverStepInv
<1>6. CASE LeftoverEnd    BY <1>6, LeftoverEndInv
<1>7. CASE Clamp          BY <1>7, ClampInv
<1>8. CASE UNCHANGED computeVars
  BY <1>8 DEF computeVars, ComputeIInv, ComputeTypeOK, BaselineSound, RoundSound,
              RoundsSound, Base, UnmetByBase, work, target
<1> QED BY <1>1, <1>2, <1>3, <1>4, <1>5, <1>6, <1>7, <1>8 DEF ComputeNext

-----------------------------------------------------------------------------
(* The theorems.                                                            *)

\* scheduler.go:75-141: the steps of Compute keep the inductive invariant: the
\* baseline loop has visited the first types of the order, the round has given
\* each type it visited its whole share and one leftover slot.
THEOREM ComputeInductive == ComputeSpec => []ComputeIInv
BY ComputeInitInv, ComputeStepInv, PTL DEF ComputeSpec

\* The types of Compute's variables: no slot count ever drops below zero.
THEOREM ComputeTyped == ComputeSpec => []ComputeTypeOK
<1>1. ComputeIInv => ComputeTypeOK
  BY DEF ComputeIInv
<1> QED BY <1>1, ComputeInductive, PTL

\* scheduler.go:49-60: whatever order the code hands the slots out in, the result is
\* one of the plans of the closed formula.
THEOREM ComputeReturnsAPlan == ComputeSpec => []ResultIsAPlan
<1>1. ComputeIInv => ResultIsAPlan
  BY DEF ComputeIInv, RoundsSound, ResultIsAPlan, Done
<1> QED BY <1>1, ComputeInductive, PTL

\* scheduler.go:56-58: max is used in full if the work allows it.
THEOREM ComputeUsesBudget == ComputeSpec => []BudgetUsedInFull
<1>1. ComputeIInv => BudgetUsedInFull
  BY PlanFacts DEF ComputeIInv, RoundsSound, BudgetUsedInFull, Done
<1> QED BY <1>1, ComputeInductive, PTL

\* scheduler.go:57-58: no type gets more workers than tasks.
THEOREM ComputeWithinWork == ComputeSpec => []NoWorkerWithoutTask
<1>1. ComputeIInv => NoWorkerWithoutTask
  BY PlanFacts DEF ComputeIInv, RoundsSound, NoWorkerWithoutTask, Done
<1> QED BY <1>1, ComputeInductive, PTL

\* scheduler.go:6-8, 96-102: the types served are as many as there are slots for, and
\* they come first in the order of the work.
THEOREM ComputeStarvesNone == ComputeSpec => []NoTypeStarved
<1>1. ComputeIInv => NoTypeStarved
  <2> SUFFICES ASSUME ComputeIInv, Done PROVE NoTypeStarved
    BY DEF NoTypeStarved
  <2>1. /\ Cardinality(Served(plan, work)) = Least(target, Cardinality(ActiveTypes(work)))
        /\ \A ty \in Served(plan, work), s \in ActiveTypes(work) \ Served(plan, work) :
             Precedes(work, ty, s)
    BY PlanFacts DEF ComputeIInv, RoundsSound, Done
  <2>2. Served(plan, work) = {ty \in ActiveTypes(work) : plan[ty] >= 1}
    BY DEF Served
  <2> QED BY <2>1, <2>2 DEF NoTypeStarved, Precedes
<1> QED BY <1>1, ComputeInductive, PTL

\* scheduler.go:52-54: the plan follows the work.
THEOREM ComputeFair == ComputeSpec => []MoreWorkNotFewerWorkers
<1>1. ComputeIInv => MoreWorkNotFewerWorkers
  BY PlanFacts DEF ComputeIInv, RoundsSound, MoreWorkNotFewerWorkers, Done, Fair
<1> QED BY <1>1, ComputeInductive, PTL

\* scheduler.go:104-141: the repetition and the clamp are never needed.
THEOREM ComputeOneRound == ComputeSpec => []OneRoundSuffices
<1>1. ComputeIInv => OneRoundSuffices
  <2> SUFFICES ASSUME ComputeIInv PROVE OneRoundSuffices
    OBVIOUS
  <2>1. rounds <= 1
    BY DEF ComputeIInv, ComputeTypeOK, RoundsSound
  <2> QED BY <2>1, ClampCutsNothing DEF OneRoundSuffices
<1> QED BY <1>1, ComputeInductive, PTL
=============================================================================
