---------------------------- MODULE MCWorkerPool ----------------------------
(* Small instances of WorkerPool.                                           *)
EXTENDS WorkerPool

\* The odd tasks are of type 1, the even ones of type 2.
MCTypeOf == [t \in Tasks |-> IF t % 2 = 1 THEN 1 ELSE 2]

MCOneType == [t \in Tasks |-> 1]

\* The supervisor gives its workers neither --max-tasks nor --exit-when-idle.
MCNoLimit == [w \in Workers |-> 0]
MCNever == [w \in Workers |-> FALSE]

MCNextcloud35 == [w \in Workers |-> TRUE]
MCNextcloud34 == [w \in Workers |-> FALSE]

\* Slots are interchangeable: no definition of the model orders them.
SlotSymmetry == Permutations(Workers)
=============================================================================
