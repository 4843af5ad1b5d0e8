----------------------------- MODULE MCRollout -----------------------------
(***************************************************************************)
(* Small instances of Rollout for TLC.  Image n carries version n.         *)
(***************************************************************************)
EXTENDS Rollout

CONSTANTS a, b, c

MCVersion == [i \in Images |-> i]

\* A channel that rolls image 2 out one instance at a time
To2 ==
    [image |-> 2, breakGlass |-> FALSE, allowDowngrade |-> FALSE, canary |-> FALSE,
     maxParallel |-> 1, healthChecks |-> FALSE, rollback |-> FALSE, override |-> NoImage]
To3 == [To2 EXCEPT !.image = 3]
Canary2 == [To2 EXCEPT !.canary = TRUE]
Checked2 == [Canary2 EXCEPT !.healthChecks = TRUE]
Canary3 == [To3 EXCEPT !.canary = TRUE]
Rollback2 == [To2 EXCEPT !.rollback = TRUE]
Pinned2 == [Rollback2 EXCEPT !.override = 3]
Wide2 == [To2 EXCEPT !.maxParallel = 2, !.healthChecks = TRUE]
BreakGlass3 == [To3 EXCEPT !.breakGlass = TRUE]
RollbackChecked2 == [Checked2 EXCEPT !.rollback = TRUE]
Full3 == [Canary3 EXCEPT !.rollback = TRUE, !.healthChecks = TRUE, !.maxParallel = 0]

On(i) == [u \in Instances |-> i]

AllOn1 == {On(1)}
Anyhow == {On(1), [u \in Instances |-> IF u = a THEN 3 ELSE 1]}

JustRollback2 == {Rollback2}
CanaryOnly == {Canary2, RollbackChecked2}
Strategies == {To2, Wide2, Checked2}
CanaryMovesOn == {Canary2, Canary3}
MachineSpecs == {Rollback2, Pinned2, Full3, BreakGlass3}
=============================================================================
