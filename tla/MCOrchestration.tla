-------------------------- MODULE MCOrchestration --------------------------
(* Runs at two depths, each with more subproblems than parallel workers,   *)
(* so that a worker waits for the semaphore.                               *)
EXTENDS RunRecord

Quick    == [subproblems |-> 3, iterations |-> 1, resolvePasses |-> 1, parallel |-> 2]
Standard == [subproblems |-> 2, iterations |-> 2, resolvePasses |-> 1, parallel |-> 1]

QuickAndStandard == {Quick, Standard}
OnlyQuick        == {Quick}
=============================================================================
