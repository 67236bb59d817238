----------------------------- MODULE MCPhpWorker -----------------------------
(* Small instances of PhpWorker.                                            *)
EXTENDS PhpWorker

CONSTANT Stayer  \* the one process without --max-tasks and --exit-when-idle

\* Every task is of type 1: the most contention.
MCOneType == [t \in Tasks |-> 1]

\* A Nextcloud upgrade under way: one worker still runs the older code.
MCUpgrade == [w \in Workers |-> w = Stayer]

MCMaxTasks == [w \in Workers |-> IF w = Stayer THEN 0 ELSE 1]
MCExitWhenIdle == [w \in Workers |-> w # Stayer]
=============================================================================
