----------------------------- MODULE ComputeLoop -----------------------------
(***************************************************************************)
(* scheduler.Compute step by step: the baseline loop, the rounds of        *)
(* distributeProportional with its guarded hand-out of the leftover slots, *)
(* the clamp after each round, and the three ways out of the loop.         *)
(***************************************************************************)
EXTENDS Scheduler

CONSTANTS
    MaxScheduled, MaxRunning, MaxWorkersPerType, \* bounds of the demands tried
    MaxValues                                    \* the values of max tried

ASSUME MaxAssumption == MaxValues \subseteq Int

VARIABLES
    demand,    \* the argument demands; a type that is not in it has no work
    max,       \* the argument max
    pc,        \* where the function is
    plan,      \* the result
    todo,      \* baseline and leftover loops: the types not yet visited
    leftover,  \* leftover slots of the round not handed out yet
    rest,      \* the slots this round hands out: remaining
    weight,    \* the unmet work the round distributes by
    rounds     \* rounds begun

computeVars == <<demand, max, pc, plan, todo, leftover, rest, weight, rounds>>

Total == SumFunction(plan)
work == WorkOf(demand)
target == Target(work, max)
NoWeight == [ty \in TaskTypes |-> 0]

Demands == [scheduled : 0 .. MaxScheduled, running : 0 .. MaxRunning,
            workers : 0 .. MaxWorkersPerType]

ComputeTypeOK ==
    /\ demand \in [TaskTypes -> Demands]
    /\ max \in MaxValues
    /\ pc \in {"baseline", "loop", "leftover", "clamp", "done"}
    /\ plan \in [TaskTypes -> Nat]
    /\ todo \subseteq TaskTypes
    /\ leftover \in Nat
    /\ rest \in Nat
    /\ weight \in [TaskTypes -> Nat]
    /\ rounds \in Nat

ComputeInit ==
    /\ demand \in [TaskTypes -> Demands]
    /\ max \in MaxValues
    /\ pc = "baseline"
    /\ plan = NoWeight
    /\ todo = ActiveTypes(work)
    /\ leftover = 0
    /\ rest = 0
    /\ weight = NoWeight
    /\ rounds = 0

GiveSlot(ty) == plan' = [plan EXCEPT ![ty] = @ + 1]

\* Lines 97-102: the sorted types in turn, until the target is reached.
BaselineStep ==
    /\ pc = "baseline"
    /\ Total < target
    /\ \E ty \in todo :
          /\ \A s \in todo \ {ty} : Precedes(work, ty, s)
          /\ GiveSlot(ty)
          /\ todo' = todo \ {ty}
    /\ UNCHANGED <<demand, max, pc, leftover, rest, weight, rounds>>

\* Seeded fault: the baseline is skipped.
BaselineEndMutant ==
    /\ pc = "baseline"
    /\ pc' = "loop"
    /\ todo' = {}
    /\ UNCHANGED <<demand, max, plan, leftover, rest, weight, rounds>>

BaselineEnd ==
    /\ pc = "baseline"
    /\ Total >= target \/ todo = {}
    /\ pc' = "loop"
    /\ todo' = {}
    /\ UNCHANGED <<demand, max, plan, leftover, rest, weight, rounds>>

\* Seeded fault: slots go by all the work, not by what has no worker yet.
UnmetMutant == work

Unmet == [ty \in TaskTypes |-> IF work[ty] > plan[ty] THEN work[ty] - plan[ty] ELSE 0]

\* Lines 110-130, 159-175: the round's whole shares.
RoundBegin ==
    /\ pc = "loop"
    /\ Total < target
    /\ SumFunction(Unmet) > 0
    /\ rest' = target - Total
    /\ weight' = Unmet
    /\ plan' = [ty \in TaskTypes |-> plan[ty] + WholeShare(Unmet, target - Total, ty)]
    /\ leftover' = target - SumFunction(plan')
    /\ todo' = {ty \in TaskTypes : Unmet[ty] > 0}
    /\ pc' = "leftover"
    /\ rounds' = rounds + 1
    /\ UNCHANGED <<demand, max>>

\* Seeded fault: nothing after the baseline.
LoopEndMutant ==
    /\ pc = "loop"
    /\ pc' = "done"
    /\ UNCHANGED <<demand, max, plan, todo, leftover, rest, weight, rounds>>

LoopEnd ==
    /\ pc = "loop"
    /\ Total >= target \/ SumFunction(Unmet) = 0
    /\ pc' = "done"
    /\ UNCHANGED <<demand, max, plan, todo, leftover, rest, weight, rounds>>

\* Seeded fault: a type stays first in line until the slots run out.
LeftoverStepMutant ==
    /\ pc = "leftover"
    /\ leftover > 0
    /\ \E ty \in todo :
          /\ \A s \in todo \ {ty} : Outranks(weight, rest, ty, s)
          /\ IF plan[ty] >= work[ty] THEN UNCHANGED <<plan, leftover>>
             ELSE GiveSlot(ty) /\ leftover' = leftover - 1
    /\ UNCHANGED <<demand, max, pc, todo, rest, weight, rounds>>

\* Lines 185-191: the shares by remainder; a type at its capacity is skipped.
LeftoverStep ==
    /\ pc = "leftover"
    /\ leftover > 0
    /\ \E ty \in todo :
          /\ \A s \in todo \ {ty} : Outranks(weight, rest, ty, s)
          /\ IF plan[ty] >= work[ty] THEN UNCHANGED <<plan, leftover>>
             ELSE GiveSlot(ty) /\ leftover' = leftover - 1
          /\ todo' = todo \ {ty}
    /\ UNCHANGED <<demand, max, pc, rest, weight, rounds>>

\* Seeded fault: the leftover slots are dropped.
LeftoverEndMutant ==
    /\ pc = "leftover"
    /\ pc' = "clamp"
    /\ todo' = {}
    /\ leftover' = 0
    /\ UNCHANGED <<demand, max, plan, rest, weight, rounds>>

LeftoverEnd ==
    /\ pc = "leftover"
    /\ leftover = 0 \/ todo = {}
    /\ pc' = "clamp"
    /\ todo' = {}
    /\ leftover' = 0
    /\ UNCHANGED <<demand, max, plan, rest, weight, rounds>>

Clamped == [ty \in TaskTypes |-> IF weight[ty] > 0 THEN Least(plan[ty], work[ty])
                                 ELSE plan[ty]]

\* Lines 132-140: no more workers than tasks; a round without progress is the last.
Clamp ==
    /\ pc = "clamp"
    /\ plan' = Clamped
    /\ pc' = IF SumFunction(Clamped) <= target - rest THEN "done" ELSE "loop"
    /\ weight' = NoWeight
    /\ rest' = 0
    /\ UNCHANGED <<demand, max, todo, leftover, rounds>>

ComputeNext ==
    \/ BaselineStep \/ BaselineEnd \/ RoundBegin \/ LoopEnd
    \/ LeftoverStep \/ LeftoverEnd \/ Clamp

\* A sequential function runs to its end.
ComputeSpec == ComputeInit /\ [][ComputeNext]_computeVars /\ WF_computeVars(ComputeNext)

-----------------------------------------------------------------------------
(* Properties.                                                              *)

Done == pc = "done"

\* scheduler.go:49-60: whatever the rounds, the clamp and the hand-out order do,
\* the result is one of the plans the closed formula gives.
ResultIsAPlan == Done => plan \in Plans(demand, max)

\* scheduler.go:56-58, 107-109: the plan uses max in full if the work allows it:
\* no slot is lost to rounding or clamping, and none is invented.
BudgetUsedInFull == Done => Total = target

\* scheduler.go:57-58: no type gets more workers than it has tasks.
NoWorkerWithoutTask == \A ty \in TaskTypes : Done => plan[ty] <= work[ty]

\* scheduler.go:6-8, 50-51, 96-102: as many of the active types are served as there are
\* slots for, all of them if there are enough; with fewer slots than types it is those
\* with the most work, and the first by id among equals.
NoTypeStarved ==
    LET active == ActiveTypes(work)
        served == {ty \in active : plan[ty] >= 1}
    IN Done =>
         /\ Cardinality(served) = Least(target, Cardinality(active))
         /\ \A ty \in served, s \in active \ served :
              work[ty] > work[s] \/ (work[ty] = work[s] /\ ty < s)

\* scheduler.go:52-54: rounding is fair: a type with more work never gets fewer
\* workers than one with less, and equal work differs by one worker at most.
MoreWorkNotFewerWorkers ==
    Done => \A s, ty \in TaskTypes :
        /\ work[s] > work[ty] => plan[s] >= plan[ty]
        /\ work[s] = work[ty] => plan[s] - plan[ty] \in {-1, 0, 1}

\* scheduler.go:104-141: one round is always enough and the clamp never cuts
\* anything: the repetition is a safeguard that the arithmetic does not need.
OneRoundSuffices == rounds <= 1 /\ (pc = "clamp" => Clamped = plan)

\* scheduler.go:110-141: the loop ends for every demand.
ComputeTerminates == <>Done

-----------------------------------------------------------------------------
(* The inductive invariant the safety properties above follow from.         *)

Base == Baseline(work, target)
UnmetByBase == [ty \in TaskTypes |-> work[ty] - Base[ty]]

\* The baseline loop has visited the first types in the order, one slot each.
BaselineSound ==
    pc = "baseline" =>
      LET seen == ActiveTypes(work) \ todo
      IN  /\ todo \subseteq ActiveTypes(work)
          /\ plan = [ty \in TaskTypes |-> IF ty \in seen THEN 1 ELSE 0]
          /\ \A s \in seen, ty \in todo : Precedes(work, s, ty)
          /\ Cardinality(seen) <= target

\* The one round distributes what the baseline left; the types it has visited have
\* their whole share and one of the leftover slots.
RoundSound ==
    pc = "leftover" =>
      LET active == {ty \in TaskTypes : weight[ty] > 0}
          seen == active \ todo
          whole == [ty \in TaskTypes |-> WholeShare(weight, rest, ty)]
      IN  /\ weight = UnmetByBase
          /\ todo \subseteq active
          /\ plan = [ty \in TaskTypes |->
                       Base[ty] + (whole[ty] + (IF ty \in seen THEN 1 ELSE 0))]
          /\ leftover = rest - SumFunction(whole) - Cardinality(seen)
          /\ \A s \in seen, ty \in todo : Outranks(weight, rest, s, ty)

RoundsSound ==
    /\ pc \in {"baseline", "loop", "done"} => rounds \in {0, 1}
    /\ pc = "baseline" => rounds = 0
    /\ pc \in {"leftover", "clamp"} =>
          rounds = 1 /\ rest > 0 /\ rest = target - SumFunction(Base)
    /\ pc = "loop" /\ rounds = 0 => plan = Base
    /\ pc = "loop" /\ rounds = 1 => plan \in Plans(demand, max)
    /\ pc \in {"clamp", "done"} => plan \in Plans(demand, max)

ComputeIInv == ComputeTypeOK /\ BaselineSound /\ RoundSound /\ RoundsSound
=============================================================================
