------------------------------ MODULE Scheduler ------------------------------
(***************************************************************************)
(* What scheduler.Compute promises (internal/scheduler/scheduler.go): the  *)
(* plans it may return for a demand, each given by one formula.  The steps *)
(* it takes to get there are in ComputeLoop.                               *)
(***************************************************************************)
EXTENDS Integers, FiniteSets, Functions

CONSTANT TaskTypes  \* numbered in the order of their ids as strings

ASSUME TypesAssumption == TaskTypes \subseteq Nat /\ IsFiniteSet(TaskTypes)

Least(a, b) == IF a <= b THEN a ELSE b

\* Demand.work: a running task counts only as far as there are workers for it.
Work(d) == d.scheduled + Least(d.running, d.workers)

WorkOf(demand) == [ty \in TaskTypes |-> Work(demand[ty])]

\* Seeded fault: >= for >.
ActiveTypesMutant(work) == {ty \in TaskTypes : work[ty] >= 0}

ActiveTypes(work) == {ty \in TaskTypes : work[ty] > 0}

\* Seeded fault: least work first.
PrecedesMutant(work, s, ty) ==
    work[s] < work[ty] \/ (work[s] = work[ty] /\ s < ty)

\* The order of the first sort: most work first, then by id.
Precedes(work, s, ty) ==
    work[s] > work[ty] \/ (work[s] = work[ty] /\ s < ty)

\* Seeded fault: the maximum is not applied.
TargetMutant(work, max) == SumFunction(work)

\* A max below 1 counts as 1.
Target(work, max) == Least(SumFunction(work), IF max < 1 THEN 1 ELSE max)

\* Step 1: one slot for each active type, the first ones if there are too few.
Baseline(work, target) ==
    [ty \in TaskTypes |->
        IF /\ work[ty] > 0
           /\ Cardinality({s \in TaskTypes : Precedes(work, s, ty)}) < target
        THEN 1 ELSE 0]

\* Seeded fault: the shares are rounded up.
WholeShareMutant(weight, remaining, ty) ==
    (remaining * weight[ty] + SumFunction(weight) - 1) \div SumFunction(weight)

\* Largest-remainder shares of `remaining` slots by weight.  Equal remainders
\* come from float64 divisions that may differ in the last bit when the weights
\* differ; only between equal weights does the id decide for certain.
WholeShare(weight, remaining, ty) ==
    (remaining * weight[ty]) \div SumFunction(weight)

Remainder(weight, remaining, ty) ==
    (remaining * weight[ty]) % SumFunction(weight)

Outranks(weight, remaining, s, ty) ==
    \/ Remainder(weight, remaining, s) > Remainder(weight, remaining, ty)
    \/ /\ Remainder(weight, remaining, s) = Remainder(weight, remaining, ty)
       /\ weight[s] = weight[ty] => s < ty

\* The sets of types that may receive one of the n leftover slots.
LeftoverSets(weight, remaining, n) ==
    {S \in SUBSET {ty \in TaskTypes : weight[ty] > 0} :
        /\ Cardinality(S) = n
        /\ \A s \in S, ty \in TaskTypes \ S :
              weight[ty] > 0 => Outranks(weight, remaining, s, ty)}

Shared(weight, remaining) ==
    IF remaining <= 0 \/ SumFunction(weight) = 0
    THEN {[ty \in TaskTypes |-> 0]}
    ELSE LET whole == [ty \in TaskTypes |-> WholeShare(weight, remaining, ty)]
         IN  {[ty \in TaskTypes |-> whole[ty] + (IF ty \in S THEN 1 ELSE 0)] :
                 S \in LeftoverSets(weight, remaining, remaining - SumFunction(whole))}

\* The plans Compute may return.  A type it leaves out of the map has 0.
Plans(demand, max) ==
    LET work   == WorkOf(demand)
        target == Target(work, max)
        base   == Baseline(work, target)
        unmet  == [ty \in TaskTypes |-> work[ty] - base[ty]]
    IN  {[ty \in TaskTypes |-> base[ty] + extra[ty]] :
            extra \in Shared(unmet, target - SumFunction(base))}
=============================================================================
