-------------------------- MODULE Rollout_proofs --------------------------
(***************************************************************************)
(* Theorems about Rollout, for any number of instances and disturbances,   *)
(* any images and any specs.                                               *)
(***************************************************************************)
EXTENDS Rollout, FiniteSetTheorems, TLAPS

-----------------------------------------------------------------------------
(* What the operators the model is built from return                       *)

\* updateInstanceCounts counts instances.
LEMMA CountBound ==
    ASSUME NEW S \in SUBSET Instances
    PROVE  Cardinality(S) \in 0 .. Cardinality(Instances)
BY InstancesAssumption, FS_Subset, FS_CardinalityType

\* rollbackBaseline only names an image when every instance that reports one
\* reports that one, so a rollback never picks one of several.
LEMMA BaselineIsUnanimous ==
    ASSUME NEW S, NEW f, RollbackBaseline(S, f) # NoImage
    PROVE  \A u \in S : f[u] \in {NoImage, RollbackBaseline(S, f)}
BY DEF RollbackBaseline, DeployedImages

\* rollbackBaseline returns a deployed image or none.
LEMMA BaselineType ==
    ASSUME NEW S \in SUBSET Instances, NEW f \in [Instances -> MaybeImage]
    PROVE  RollbackBaseline(S, f) \in MaybeImage
BY DEF RollbackBaseline, DeployedImages, MaybeImage

\* What a pass works with when it starts, and what its helpers return, is well typed.
LEMMA OperatorTypes ==
    ASSUME TypeOK
    PROVE  /\ Forgotten \in SeenType
           /\ Snapshot \in SeenType
           /\ [seen EXCEPT !.spec = spec] \in SeenType
           /\ [seen EXCEPT !.spec = spec, !.target = Target] \in SeenType
           /\ Target \in Images
           /\ Baseline \in MaybeImage
           /\ RollbackTarget(seen.spec) \in MaybeImage
           /\ PhaseOnFailure \in {"Failed", "RollingBack"}
           /\ NoBatch \in BatchType
           /\ IdleBatch \in BatchType
           /\ FailedOn \in MaybeImage
           /\ Adopted \in [Instances -> MaybeImage]
<1> USE DEF TypeOK
<1>1. spec \in SpecType /\ InitSpec \in SpecType /\ seen.spec \in SpecType
  BY SpecsAssumption DEF SeenType
<1>2. seen.members \in SUBSET Instances /\ seen.resolved \in [Instances -> MaybeImage]
  BY DEF SeenType
<1>3. Forgotten \in SeenType
  BY <1>1, SpecsAssumption DEF Forgotten, SeenType, SpecType, MaybeImage
<1>4. Snapshot \in SeenType
  BY <1>1 DEF Snapshot, SeenType, SpecType, MaybeImage, Members, FleetOK
<1>5. [seen EXCEPT !.spec = spec] \in SeenType
  BY DEF SeenType
<1>6. Target \in Images /\ [seen EXCEPT !.spec = spec, !.target = Target] \in SeenType
  BY <1>1 DEF Target, SpecType, SeenType
<1>7. Baseline \in MaybeImage
  BY <1>2, BaselineType DEF Baseline
<1>8. RollbackTarget(seen.spec) \in MaybeImage
  BY <1>1 DEF RollbackTarget, SpecType, StatusOK
<1>9. PhaseOnFailure \in {"Failed", "RollingBack"}
  BY DEF PhaseOnFailure
<1>10. NoBatch \in BatchType /\ IdleBatch \in BatchType
  BY DEF NoBatch, IdleBatch, BatchType, MaybeImage, StatusOK
<1>11. FailedOn \in MaybeImage /\ Adopted \in [Instances -> MaybeImage]
  BY <1>6 DEF FailedOn, Adopted, MaybeImage, StatusOK
<1> QED
  BY <1>3, <1>4, <1>5, <1>6, <1>7, <1>8, <1>9, <1>10, <1>11

\* updateInstanceCounts writes a count and a map of the right types.
LEMMA CountType ==
    ASSUME TypeOK, NEW images \in [Instances -> MaybeImage], Count(images)
    PROVE  /\ upToDate' \in 0 .. Cardinality(Instances)
           /\ instanceImages' \in [Instances -> MaybeImage]
<1>1. {u \in seen.members : seen.resolved[u] = Target} \in SUBSET Instances
  BY DEF TypeOK, SeenType
<1> QED
  BY <1>1, CountBound DEF Count, MaybeImage

\* deployToInstances assigns images, and records a batch of instances.
LEMMA DeployType ==
    ASSUME TypeOK, NEW S \in SUBSET Instances, DeployToInstances(S)
    PROVE  /\ activeBatch' \in BatchType
           /\ instanceImages' \in [Instances -> MaybeImage]
<1>1. spec \in SpecType /\ Target \in Images
  BY SpecsAssumption, OperatorTypes DEF TypeOK
<1>2. \A u \in Instances : ExpectedImage(u, Target) \in MaybeImage
  BY <1>1 DEF TypeOK, StatusOK, ExpectedImage, SpecType, MaybeImage
<1> QED
  BY <1>1, <1>2 DEF DeployToInstances, TypeOK, StatusOK, BatchType, SpecType, MaybeImage

\* The ways a rollout ends badly leave a well-typed status.
LEMMA FailType ==
    ASSUME TypeOK, NEW p \in Phases, NEW r \in Failures, Fail(p, r)
    PROVE  phase' \in Phases /\ failure' \in Failures /\ activeBatch' \in BatchType
BY OperatorTypes DEF Fail, TypeOK, StatusOK

-----------------------------------------------------------------------------
(* Type correctness                                                        *)

\* The steps of the controller
LEMMA ReconcileType == TypeOK /\ Reconcile => TypeOK'
<1> SUFFICES ASSUME TypeOK, Reconcile PROVE TypeOK'
  OBVIOUS
<1> DEFINE Images0 == [Instances -> MaybeImage]
<1>a. seen.members \in SUBSET Instances /\ seen.resolved \in Images0
  BY DEF TypeOK, SeenType
<1>b. /\ ErrorKinds \subseteq Failures /\ "timeout" \in Failures
      /\ {"Failed", "RollingBack"} \subseteq Phases
  BY DEF ErrorKinds, Failures, Phases
<1>c. NoImage \in MaybeImage
  BY DEF MaybeImage
<1>d. 0 \in 0 .. Cardinality(Instances) /\ 0 \in 0 .. MaxRetries
  BY InstancesAssumption, BoundsAssumption, FS_CardinalityType
<1>e. [u \in Instances |-> RollbackTarget(seen.spec)] \in Images0
  BY OperatorTypes
<1> USE DEF TypeOK, EndPass, ContinueAt, Stages, fleetVars
<1> USE OperatorTypes
<1>1. CASE Observe
  <2>1. StatusOK'
    BY <1>1 DEF Observe, StatusOK, statusVars
  <2>2. FlagsOK' /\ FleetOK'
    BY <1>1, Zenon DEF Observe, FlagsOK, FleetOK, statusVars
  <2> QED
    BY <1>1, <2>1, <2>2 DEF Observe
<1>2. CASE RefuseDowngrade
  <2>1. StatusOK'
    BY <1>2, CountType DEF RefuseDowngrade, Refuse, StatusOK, statusVars, Phases
  <2>2. FlagsOK' /\ FleetOK'
    BY <1>2, Zenon DEF RefuseDowngrade, Refuse, FlagsOK, FleetOK, statusVars
  <2> QED
    BY <1>2, <2>1, <2>2 DEF RefuseDowngrade, Refuse
<1>3. CASE Timeout
  <2>1. StatusOK'
    BY <1>3, <1>b, FailType DEF Timeout, StatusOK, statusVars
  <2>2. FlagsOK' /\ FleetOK'
    BY <1>3, Zenon DEF Timeout, FlagsOK, FleetOK, statusVars
  <2> QED
    BY <1>3, <2>1, <2>2 DEF Timeout
<1>4. CASE TrackPreviousImage
  <2>1. StatusOK'
    BY <1>4 DEF TrackPreviousImage, StatusOK, statusVars
  <2>2. FlagsOK' /\ FleetOK'
    BY <1>4, Zenon DEF TrackPreviousImage, FlagsOK, FleetOK, statusVars
  <2> QED
    BY <1>4, <2>1, <2>2 DEF TrackPreviousImage
<1>5. CASE BreakGlass
  <2>1. StatusOK'
    BY <1>5, <1>a, DeployType DEF BreakGlass, StatusOK, statusVars
  <2>2. FlagsOK' /\ FleetOK'
    BY <1>5, Zenon DEF BreakGlass, FlagsOK, FleetOK, statusVars
  <2> QED
    BY <1>5, <2>1, <2>2 DEF BreakGlass
<1>6. CASE AllFoundReady \/ PerformHealthChecks
  <2>1. StatusOK'
    BY <1>6 DEF AllFoundReady, PerformHealthChecks, StatusOK, statusVars
  <2>2. FlagsOK' /\ FleetOK'
    BY <1>6, Zenon DEF AllFoundReady, PerformHealthChecks, FlagsOK, FleetOK, statusVars
  <2> QED
    BY <1>6, <2>1, <2>2 DEF AllFoundReady, PerformHealthChecks
<1>7. CASE Unhealthy
  <2>1. StatusOK'
    BY <1>7 DEF Unhealthy, StatusOK, statusVars
  <2>2. FlagsOK' /\ FleetOK'
    BY <1>7, Zenon DEF Unhealthy, FlagsOK, FleetOK, statusVars
  <2> QED
    BY <1>7, <2>1, <2>2 DEF Unhealthy
<1>8. CASE IdleNoInstances
  <2>1. StatusOK'
    BY <1>8, <1>d DEF IdleNoInstances, StatusOK, statusVars
  <2>2. FlagsOK' /\ FleetOK'
    BY <1>8, Zenon DEF IdleNoInstances, FlagsOK, FleetOK, statusVars
  <2> QED
    BY <1>8, <2>1, <2>2 DEF IdleNoInstances
<1>9. CASE IdleUpToDate
  <2>1. StatusOK'
    BY <1>9, CountType DEF IdleUpToDate, StatusOK, statusVars
  <2>2. FlagsOK' /\ FleetOK'
    BY <1>9, Zenon DEF IdleUpToDate, FlagsOK, FleetOK, statusVars
  <2> QED
    BY <1>9, <2>1, <2>2 DEF IdleUpToDate
<1>10. CASE IdleRefuse
  <2>1. StatusOK'
    BY <1>10, CountType DEF IdleRefuse, Refuse, StatusOK, statusVars, Phases
  <2>2. FlagsOK' /\ FleetOK'
    BY <1>10, Zenon DEF IdleRefuse, Refuse, FlagsOK, FleetOK, statusVars
  <2> QED
    BY <1>10, <2>1, <2>2 DEF IdleRefuse, Refuse
<1>11. CASE IdleStart
  <2>1. StatusOK'
    BY <1>11, CountType DEF IdleStart, StatusOK, statusVars, Phases, Clocks
  <2>2. FlagsOK' /\ FleetOK'
    BY <1>11, Zenon DEF IdleStart, FlagsOK, FleetOK, statusVars
  <2> QED
    BY <1>11, <2>1, <2>2 DEF IdleStart
<1>12. CASE CanaryNone
  <2>1. StatusOK'
    BY <1>12 DEF CanaryNone, StatusOK, statusVars, Phases
  <2>2. FlagsOK' /\ FleetOK'
    BY <1>12, Zenon DEF CanaryNone, FlagsOK, FleetOK, statusVars
  <2> QED
    BY <1>12, <2>1, <2>2 DEF CanaryNone
<1>13. CASE CanaryDeploy
  <2>1. StatusOK'
    BY <1>13, <1>a, DeployType DEF CanaryDeploy, StatusOK, statusVars
  <2>2. FlagsOK' /\ FleetOK'
    BY <1>13, Zenon DEF CanaryDeploy, FlagsOK, FleetOK, statusVars
  <2> QED
    BY <1>13, <2>1, <2>2 DEF CanaryDeploy
<1>14. CASE CanaryFailed
  <2>1. StatusOK'
    BY <1>14, <1>b, CountType, FailType DEF CanaryFailed, StatusOK, statusVars
  <2>2. FlagsOK' /\ FleetOK'
    BY <1>14, Zenon DEF CanaryFailed, FlagsOK, FleetOK, statusVars
  <2> QED
    BY <1>14, <2>1, <2>2 DEF CanaryFailed
<1>15. CASE CanaryWait
  <2>1. StatusOK'
    BY <1>15, CountType DEF CanaryWait, StatusOK, statusVars
  <2>2. FlagsOK' /\ FleetOK'
    BY <1>15, Zenon DEF CanaryWait, FlagsOK, FleetOK, statusVars
  <2> QED
    BY <1>15, <2>1, <2>2 DEF CanaryWait
<1>16. CASE CanaryHealthError
  <2>1. StatusOK'
    BY <1>16, <1>b, CountType, FailType DEF CanaryHealthError, FailTwice, StatusOK, statusVars
  <2>2. FlagsOK' /\ FleetOK'
    BY <1>16, Zenon DEF CanaryHealthError, FailTwice, FlagsOK, FleetOK, statusVars
  <2> QED
    BY <1>16, <2>1, <2>2 DEF CanaryHealthError
<1>17. CASE CanaryPassed
  <2>1. StatusOK'
    BY <1>17, CountType DEF CanaryPassed, StatusOK, statusVars, Phases
  <2>2. FlagsOK' /\ FleetOK'
    BY <1>17, Zenon DEF CanaryPassed, FlagsOK, FleetOK, statusVars
  <2> QED
    BY <1>17, <2>1, <2>2 DEF CanaryPassed
<1>18. CASE RollingRecover
  <2>1. StatusOK'
    BY <1>18, <1>a DEF RollingRecover, StatusOK, statusVars, BatchType, Stranded, MaybeImage
  <2>2. FlagsOK' /\ FleetOK'
    BY <1>18, Zenon DEF RollingRecover, FlagsOK, FleetOK, statusVars
  <2> QED
    BY <1>18, <2>1, <2>2 DEF RollingRecover
<1>19. CASE RollingCount
  <2>1. StatusOK'
    BY <1>19, CountType DEF RollingCount, StatusOK, statusVars
  <2>2. FlagsOK' /\ FleetOK'
    BY <1>19, Zenon DEF RollingCount, FlagsOK, FleetOK, statusVars
  <2> QED
    BY <1>19, <2>1, <2>2 DEF RollingCount
<1>20. CASE BatchGone
  <2>1. StatusOK'
    BY <1>20 DEF BatchGone, StatusOK, statusVars
  <2>2. FlagsOK' /\ FleetOK'
    BY <1>20, Zenon DEF BatchGone, FlagsOK, FleetOK, statusVars
  <2> QED
    BY <1>20, <2>1, <2>2 DEF BatchGone
<1>21. CASE RollingFailed
  <2>1. StatusOK'
    BY <1>21, <1>b, FailType DEF RollingFailed, StatusOK, statusVars
  <2>2. FlagsOK' /\ FleetOK'
    BY <1>21, Zenon DEF RollingFailed, FlagsOK, FleetOK, statusVars
  <2> QED
    BY <1>21, <2>1, <2>2 DEF RollingFailed
<1>22. CASE RollingWait
  <2>1. StatusOK'
    BY <1>22 DEF RollingWait, StatusOK, statusVars
  <2>2. FlagsOK' /\ FleetOK'
    BY <1>22, Zenon DEF RollingWait, FlagsOK, FleetOK, statusVars
  <2> QED
    BY <1>22, <2>1, <2>2 DEF RollingWait
<1>23. CASE BatchDone
  <2>1. StatusOK'
    BY <1>23 DEF BatchDone, StatusOK, statusVars
  <2>2. FlagsOK' /\ FleetOK'
    BY <1>23, Zenon DEF BatchDone, FlagsOK, FleetOK, statusVars
  <2> QED
    BY <1>23, <2>1, <2>2 DEF BatchDone
<1>24. CASE RollingComplete
  <2>1. StatusOK'
    BY <1>24 DEF RollingComplete, StatusOK, statusVars, Phases
  <2>2. FlagsOK' /\ FleetOK'
    BY <1>24, Zenon DEF RollingComplete, FlagsOK, FleetOK, statusVars
  <2> QED
    BY <1>24, <2>1, <2>2 DEF RollingComplete
<1>25. CASE RollingAssign
  <2>1. StatusOK'
    BY <1>25, <1>a, DeployType DEF RollingAssign, StatusOK, statusVars, InstancesToUpdate
  <2>2. FlagsOK' /\ FleetOK'
    BY <1>25, Zenon DEF RollingAssign, FlagsOK, FleetOK, statusVars
  <2> QED
    BY <1>25, <2>1, <2>2 DEF RollingAssign
<1>26. CASE Completed
  <2>1. StatusOK'
    BY <1>26, <1>c, <1>d DEF Completed, StatusOK, statusVars, Phases, Failures, Clocks
  <2>2. FlagsOK' /\ FleetOK'
    BY <1>26, Zenon DEF Completed, FlagsOK, FleetOK, statusVars
  <2> QED
    BY <1>26, <2>1, <2>2 DEF Completed
<1>27. CASE FailedDropBatch
  <2>1. StatusOK'
    BY <1>27 DEF FailedDropBatch, StatusOK, statusVars
  <2>2. FlagsOK' /\ FleetOK'
    BY <1>27, Zenon DEF FailedDropBatch, FlagsOK, FleetOK, statusVars
  <2> QED
    BY <1>27, <2>1, <2>2 DEF FailedDropBatch
<1>28. CASE FailedBreakGlass
  <2>1. StatusOK'
    BY <1>28, <1>c, <1>d DEF FailedBreakGlass, Restart, StatusOK, statusVars, Phases, Failures, Clocks
  <2>2. FlagsOK' /\ FleetOK'
    BY <1>28, Zenon DEF FailedBreakGlass, Restart, FlagsOK, FleetOK, statusVars
  <2> QED
    BY <1>28, <2>1, <2>2 DEF FailedBreakGlass, Restart
<1>29. CASE FailedImageMoved
  <2>1. StatusOK'
    BY <1>29, <1>c, <1>d DEF FailedImageMoved, Restart, StatusOK, statusVars, Phases, Failures, Clocks
  <2>2. FlagsOK' /\ FleetOK'
    BY <1>29, Zenon DEF FailedImageMoved, Restart, FlagsOK, FleetOK, statusVars
  <2> QED
    BY <1>29, <2>1, <2>2 DEF FailedImageMoved, Restart
<1>30. CASE FailedResume
  <2>1. StatusOK'
    BY <1>30, <1>c, <1>d DEF FailedResume, Restart, StatusOK, statusVars, Phases, Failures, Clocks
  <2>2. FlagsOK' /\ FleetOK'
    BY <1>30, Zenon DEF FailedResume, Restart, FlagsOK, FleetOK, statusVars
  <2> QED
    BY <1>30, <2>1, <2>2 DEF FailedResume, Restart
<1>31. CASE FailedRetry
  <2>1. StatusOK'
    BY <1>31, BoundsAssumption DEF FailedRetry, Retryable, StatusOK, statusVars, Phases, Failures
  <2>2. FlagsOK' /\ FleetOK'
    BY <1>31, Zenon DEF FailedRetry, Retryable, FlagsOK, FleetOK, statusVars
  <2> QED
    BY <1>31, <2>1, <2>2 DEF FailedRetry, Retryable
<1>32. CASE FailedBackoff
  <2>1. StatusOK'
    BY <1>32 DEF FailedBackoff, StatusOK, statusVars
  <2>2. FlagsOK' /\ FleetOK'
    BY <1>32, Zenon DEF FailedBackoff, FlagsOK, FleetOK, statusVars
  <2> QED
    BY <1>32, <2>1, <2>2 DEF FailedBackoff
<1>33. CASE FailedSettle
  <2>1. StatusOK'
    BY <1>33 DEF FailedSettle, StatusOK, statusVars, Phases
  <2>2. FlagsOK' /\ FleetOK'
    BY <1>33, Zenon DEF FailedSettle, FlagsOK, FleetOK, statusVars
  <2> QED
    BY <1>33, <2>1, <2>2 DEF FailedSettle
<1>34. CASE RollbackUnavailable
  <2>1. StatusOK'
    BY <1>34 DEF RollbackUnavailable, StatusOK, statusVars, Phases, Failures
  <2>2. FlagsOK' /\ FleetOK'
    BY <1>34, Zenon DEF RollbackUnavailable, FlagsOK, FleetOK, statusVars
  <2> QED
    BY <1>34, <2>1, <2>2 DEF RollbackUnavailable
<1>35. CASE RollbackAssign
  <2>1. StatusOK'
    BY <1>35, <1>e, CountType DEF RollbackAssign, StatusOK, statusVars
  <2>2. FlagsOK' /\ FleetOK'
    BY <1>35, Zenon DEF RollbackAssign, FlagsOK, FleetOK, statusVars
  <2> QED
    BY <1>35, <2>1, <2>2 DEF RollbackAssign
<1>36. CASE RollbackConflict
  <2>1. StatusOK'
    BY <1>36 DEF RollbackConflict, StatusOK, statusVars
  <2>2. FlagsOK' /\ FleetOK'
    BY <1>36, Zenon DEF RollbackConflict, FlagsOK, FleetOK, statusVars
  <2> QED
    BY <1>36, <2>1, <2>2 DEF RollbackConflict
<1>37. CASE RollbackFailed
  <2>1. StatusOK'
    BY <1>37 DEF RollbackFailed, StatusOK, statusVars, Phases, Failures, ErrorKinds
  <2>2. FlagsOK' /\ FleetOK'
    BY <1>37, Zenon DEF RollbackFailed, FlagsOK, FleetOK, statusVars
  <2> QED
    BY <1>37, <2>1, <2>2 DEF RollbackFailed
<1>38. CASE RollbackWait
  <2>1. StatusOK'
    BY <1>38 DEF RollbackWait, StatusOK, statusVars
  <2>2. FlagsOK' /\ FleetOK'
    BY <1>38, Zenon DEF RollbackWait, FlagsOK, FleetOK, statusVars
  <2> QED
    BY <1>38, <2>1, <2>2 DEF RollbackWait
<1>39. CASE RollbackDone
  <2>1. StatusOK'
    BY <1>39, <1>c, <1>d DEF RollbackDone, StatusOK, statusVars, Phases
  <2>2. FlagsOK' /\ FleetOK'
    BY <1>39, Zenon DEF RollbackDone, FlagsOK, FleetOK, statusVars
  <2> QED
    BY <1>39, <2>1, <2>2 DEF RollbackDone
<1> QED
  BY <1>1, <1>2, <1>3, <1>4, <1>5, <1>6, <1>7, <1>8, <1>9, <1>10, <1>11, <1>12, 
     <1>13, <1>14, <1>15, <1>16, <1>17, <1>18, <1>19, <1>20, <1>21, <1>22, <1>23, 
     <1>24, <1>25, <1>26, <1>27, <1>28, <1>29, <1>30, <1>31, <1>32, <1>33, <1>34, 
     <1>35, <1>36, <1>37, <1>38, <1>39
  DEF Reconcile, ExecutePhase, ExecuteIdlePhase, ExecuteCanaryPhase,
      ExecuteRollingPhase, ExecuteFailedPhase, ExecuteRollingBackPhase

\* The steps of the instances, by themselves or disturbed
LEMMA FleetType ==
    ASSUME TypeOK, NEW u \in Instances,
           ReconcileUnleash(u) \/ Flap(u) \/ Fault(u) \/ Join(u) \/ Leave(u)
    PROVE  FleetOK' /\ FlagsOK' /\ UNCHANGED channelVars
<1>1. ResolvedImage(u) \in MaybeImage
  BY SpecsAssumption
  DEF TypeOK, StatusOK, FleetOK, ResolvedImage, RollbackTarget, SpecType, MaybeImage
<1>2. \A i \in MaybeImage : [resolved EXCEPT ![u] = i] \in [Instances -> MaybeImage]
  BY DEF TypeOK, FleetOK
<1>3. \A c \in Conditions : SetCond(u, c) => cond' \in [Instances -> Conditions]
  BY DEF TypeOK, FleetOK, SetCond
<1>4. \A x \in BOOLEAN : [member EXCEPT ![u] = x] \in [Instances -> BOOLEAN]
  BY Zenon DEF TypeOK, FlagsOK
<1>5. {"new", "pending", "ready", "restarting", "connected", "failed"} \subseteq Conditions /\ NoImage \in MaybeImage
  BY DEF Conditions, MaybeImage
<1>6. FleetOK' /\ UNCHANGED channelVars
  BY <1>1, <1>2, <1>3, <1>5 DEF ReconcileUnleash, Pull, KeepImage, BecomeReady, Connect,
     DeploymentFails, Flap, Fault, Join, Leave, TypeOK, FleetOK
<1>7. FlagsOK'
  BY <1>4, Zenon DEF ReconcileUnleash, Pull, KeepImage, BecomeReady, Connect, DeploymentFails, Flap,
     Fault, Join, Leave, channelVars, statusVars, TypeOK, FlagsOK
<1> QED
  BY <1>6, <1>7

\* What operators and faults do
LEMMA EnvironmentType == TypeOK /\ Environment => TypeOK'
<1> SUFFICES ASSUME TypeOK, Environment PROVE TypeOK'
  OBVIOUS
<1> USE DEF TypeOK, Disturb
<1> MaxDisturbances \in Nat
  BY BoundsAssumption
<1>1. CASE EditSpec
  <2>1. FlagsOK' /\ FleetOK'
    BY <1>1, Zenon DEF EditSpec, statusVars, fleetVars, FlagsOK, FleetOK
  <2> QED
    BY <1>1, <2>1 DEF EditSpec, statusVars, fleetVars, workerVars, StatusOK
<1>2. CASE BudgetMoves
  <2>1. FlagsOK' /\ FleetOK'
    BY <1>2, Zenon DEF BudgetMoves, fleetVars, FlagsOK, FleetOK
  <2> QED
    BY <1>2, <2>1 DEF BudgetMoves, fleetVars, workerVars, StatusOK, Clocks
<1>3. CASE ApiFails
  <2>1. ASSUME NEW batch \in BatchType, RecordError(batch)
        PROVE  StatusOK' /\ FlagsOK' /\ FleetOK' /\ UNCHANGED spec /\ EndPass
    <3>1. FlagsOK' /\ FleetOK'
      BY <2>1, Zenon DEF RecordError, fleetVars, FlagsOK, FleetOK
    <3> QED
      BY <2>1, <3>1 DEF RecordError, StatusOK, Phases, Failures, ErrorKinds
  <2>2. activeBatch \in BatchType /\ NoBatch \in BatchType
    BY OperatorTypes DEF StatusOK
  <2>3. CASE ListError \/ CaptureError \/ BreakGlassError
    <3>1. PICK batch \in BatchType : RecordError(batch)
      BY <2>2, <2>3 DEF ListError, CaptureError, BreakGlassError
    <3> QED
      BY <1>3, <2>1, <3>1, OperatorTypes DEF ApiFails, EndPass, Stages
  <2>4. CASE DeployError
    <3>0. ErrorKinds \subseteq Failures /\ {"Failed", "RollingBack"} \subseteq Phases
      BY DEF ErrorKinds, Failures, Phases
    <3>1. StatusOK'
      BY <2>4, <3>0, FailType, OperatorTypes DEF DeployError, FailTwice, StatusOK
    <3>2. FlagsOK' /\ FleetOK'
      BY <2>4, Zenon DEF DeployError, FailTwice, FlagsOK, FleetOK, fleetVars
    <3> QED
      BY <1>3, <2>4, <3>1, <3>2, OperatorTypes DEF ApiFails, DeployError, EndPass, Stages
  <2>5. CASE ListErrorWritten
    <3>1. StatusOK'
      BY <2>2, <2>5 DEF ListErrorWritten, StatusOK, Phases, Failures, ErrorKinds
    <3>2. FlagsOK' /\ FleetOK'
      BY <2>5, Zenon DEF ListErrorWritten, FlagsOK, FleetOK, fleetVars
    <3> QED
      BY <1>3, <2>5, <3>1, <3>2, OperatorTypes
      DEF ApiFails, ListErrorWritten, EndPass, Stages
  <2> QED
    BY <1>3, <2>3, <2>4, <2>5 DEF ApiFails
<1>4. CASE Crash
  <2>1. FlagsOK' /\ FleetOK'
    BY <1>4, Zenon DEF Crash, Abandon, statusVars, fleetVars, FlagsOK, FleetOK
  <2> QED
    BY <1>4, <2>1, OperatorTypes
    DEF Crash, Abandon, EndPass, statusVars, StatusOK, Stages
<1>5. CASE Flaps \/ Faults \/ Joins \/ Leaves
  BY <1>5, FleetType
  DEF Flaps, Faults, Joins, Leaves, channelVars, statusVars, workerVars, StatusOK
<1> QED
  BY <1>1, <1>2, <1>3, <1>4, <1>5 DEF Environment

\* Everything the channel and its instances record keeps its type, and the retries
\* their cap, whatever passes, instances, operators and faults interleave.
THEOREM TypeCorrect == Spec => []TypeOK
<1>1. Init => TypeOK
  <2> SUFFICES ASSUME Init PROVE TypeOK
    OBVIOUS
  <2>1. FlagsOK
    BY Zenon DEF Init, FlagsOK
  <2>2. FleetOK
    BY InitAssumption DEF Init, FleetOK, Conditions
  <2>3. StatusOK
    BY InstancesAssumption, BoundsAssumption, FS_CardinalityType
    DEF Init, StatusOK, Phases, Failures, Clocks, NoBatch, BatchType, MaybeImage
  <2>4. Forgotten \in SeenType
    BY SpecsAssumption DEF Forgotten, SeenType, SpecType, MaybeImage
  <2> QED
    BY <2>1, <2>2, <2>3, <2>4, SpecsAssumption, BoundsAssumption
    DEF Init, TypeOK, Stages
<1>2. TypeOK /\ [Next]_vars => TypeOK'
  <2> SUFFICES ASSUME TypeOK, [Next]_vars PROVE TypeOK'
    OBVIOUS
  <2>1. CASE Reconcile
    BY <2>1, ReconcileType
  <2>2. CASE Environment
    BY <2>2, EnvironmentType
  <2>3. CASE Fleet
    <3>1. PICK u \in Instances : ReconcileUnleash(u)
      BY <2>3 DEF Fleet
    <3>2. FleetOK' /\ FlagsOK' /\ UNCHANGED channelVars
      BY <3>1, FleetType
    <3>3. UNCHANGED disturbances
      BY <3>1 DEF ReconcileUnleash, Pull, KeepImage, BecomeReady, Connect, DeploymentFails
    <3> QED
      BY <3>2, <3>3 DEF TypeOK, StatusOK, channelVars, statusVars, workerVars
  <2>4. CASE UNCHANGED vars
    <3>1. FlagsOK' /\ FleetOK'
      BY <2>4, Zenon DEF vars, statusVars, fleetVars, TypeOK, FlagsOK, FleetOK
    <3> QED
      BY <2>4, <3>1 DEF vars, statusVars, workerVars, TypeOK, StatusOK
  <2> QED
    BY <2>1, <2>2, <2>3, <2>4 DEF Next
<1> QED
  BY <1>1, <1>2, PTL DEF Spec

-----------------------------------------------------------------------------
(* Batches                                                                 *)

\* No batch outlives its rollout: whatever executeRollingPhase leaves for, it drops
\* the batch first, and no other phase starts one.
THEOREM BatchesEndWithRolling == Spec => []BatchOnlyWhileRolling
<1>1. Init => BatchOnlyWhileRolling
  BY DEF Init, BatchOnlyWhileRolling
<1>2. BatchOnlyWhileRolling /\ [Next]_vars => BatchOnlyWhileRolling'
  <2> SUFFICES ASSUME BatchOnlyWhileRolling, [Next]_vars PROVE BatchOnlyWhileRolling'
    OBVIOUS
  <2> USE DEF BatchOnlyWhileRolling
  <2>1. CASE Observe
    BY <2>1 DEF Observe, statusVars
  <2>2. CASE RefuseDowngrade
    BY <2>2 DEF RefuseDowngrade, Refuse
  <2>3. CASE Timeout
    BY <2>3 DEF Timeout, Fail
  <2>4. CASE TrackPreviousImage
    BY <2>4 DEF TrackPreviousImage
  <2>5. CASE BreakGlass
    BY <2>5 DEF BreakGlass, DeployToInstances
  <2>6. CASE AllFoundReady \/ PerformHealthChecks
    BY <2>6 DEF AllFoundReady, PerformHealthChecks, statusVars
  <2>7. CASE Unhealthy
    BY <2>7 DEF Unhealthy, statusVars
  <2>8. CASE IdleNoInstances
    BY <2>8 DEF IdleNoInstances
  <2>9. CASE IdleUpToDate
    BY <2>9 DEF IdleUpToDate, IdleBatch
  <2>10. CASE IdleRefuse
    BY <2>10 DEF IdleRefuse, Refuse
  <2>11. CASE IdleStart
    BY <2>11 DEF IdleStart, IdleBatch
  <2>12. CASE CanaryNone
    BY <2>12 DEF CanaryNone
  <2>13. CASE CanaryDeploy
    BY <2>13 DEF CanaryDeploy, DeployToInstances
  <2>14. CASE CanaryFailed
    BY <2>14 DEF CanaryFailed, Fail
  <2>15. CASE CanaryWait
    BY <2>15 DEF CanaryWait
  <2>16. CASE CanaryHealthError
    BY <2>16 DEF CanaryHealthError, FailTwice, Fail
  <2>17. CASE CanaryPassed
    BY <2>17 DEF CanaryPassed
  <2>18. CASE RollingRecover
    BY <2>18 DEF RollingRecover
  <2>19. CASE RollingCount
    BY <2>19 DEF RollingCount
  <2>20. CASE BatchGone
    BY <2>20 DEF BatchGone
  <2>21. CASE RollingFailed
    BY <2>21 DEF RollingFailed, Fail, Waiting
  <2>22. CASE RollingWait
    BY <2>22 DEF RollingWait, Waiting, statusVars
  <2>23. CASE BatchDone
    BY <2>23 DEF BatchDone, Waiting
  <2>24. CASE RollingComplete
    BY <2>24 DEF RollingComplete, Waiting
  <2>25. CASE RollingAssign
    BY <2>25 DEF RollingAssign, DeployToInstances
  <2>26. CASE Completed
    BY <2>26 DEF Completed
  <2>27. CASE FailedDropBatch
    BY <2>27 DEF FailedDropBatch
  <2>28. CASE FailedBreakGlass
    BY <2>28 DEF FailedBreakGlass, Restart
  <2>29. CASE FailedImageMoved
    BY <2>29 DEF FailedImageMoved, Restart
  <2>30. CASE FailedResume
    BY <2>30 DEF FailedResume, Restart
  <2>31. CASE FailedRetry
    BY <2>31 DEF FailedRetry, Retryable
  <2>32. CASE FailedBackoff
    BY <2>32 DEF FailedBackoff, statusVars
  <2>33. CASE FailedSettle
    BY <2>33 DEF FailedSettle
  <2>34. CASE RollbackUnavailable
    BY <2>34 DEF RollbackUnavailable
  <2>35. CASE RollbackAssign
    BY <2>35 DEF RollbackAssign
  <2>36. CASE RollbackConflict
    BY <2>36 DEF RollbackConflict, statusVars
  <2>37. CASE RollbackFailed
    BY <2>37 DEF RollbackFailed
  <2>38. CASE RollbackWait
    BY <2>38 DEF RollbackWait, statusVars
  <2>39. CASE RollbackDone
    BY <2>39 DEF RollbackDone
  <2>40. CASE Fleet
    BY <2>40 DEF Fleet, ReconcileUnleash, Pull, KeepImage, BecomeReady, Connect, DeploymentFails,
       channelVars, statusVars
  <2>41. CASE Environment
    BY <2>41 DEF Environment, EditSpec, BudgetMoves, ApiFails, ListError,
       ListErrorWritten, CaptureError, BreakGlassError, RecordError, DeployError, FailTwice, Fail,
       Crash, Abandon, Flaps, Flap, Faults, Fault, Joins, Join, Leaves, Leave,
       channelVars, statusVars
  <2>42. CASE UNCHANGED vars
    BY <2>42 DEF vars, statusVars
  <2> QED
    BY <2>1, <2>2, <2>3, <2>4, <2>5, <2>6, <2>7, <2>8, <2>9, <2>10, <2>11, <2>12, 
     <2>13, <2>14, <2>15, <2>16, <2>17, <2>18, <2>19, <2>20, <2>21, <2>22, <2>23, 
     <2>24, <2>25, <2>26, <2>27, <2>28, <2>29, <2>30, <2>31, <2>32, <2>33, <2>34, 
     <2>35, <2>36, <2>37, <2>38, <2>39, <2>40, <2>41, <2>42
    DEF Next, Reconcile, ExecutePhase, ExecuteIdlePhase, ExecuteCanaryPhase,
        ExecuteRollingPhase, ExecuteFailedPhase, ExecuteRollingBackPhase
<1> QED
  BY <1>1, <1>2, PTL DEF Spec

-----------------------------------------------------------------------------
(* Rollback                                                                *)

\* On a channel whose operators name no image to roll back to, RollingBack is only
\* ever entered with a baseline, and the baseline is not lost while it lasts: a
\* rollback never finds itself with nowhere to go.
THEOREM RollbacksHaveBaselines == Spec => []RollbackHasBaseline
<1> DEFINE Known == phase = "RollingBack" => previousImage # NoImage
<1>1. ASSUME \A s \in Specs : s.override = NoImage
      PROVE  TypeOK /\ Known /\ [Next]_vars => Known'
  <2> SUFFICES ASSUME TypeOK, Known, [Next]_vars PROVE Known'
    OBVIOUS
  <2>0. seen.spec.override = NoImage
    BY <1>1 DEF TypeOK, SeenType
  <2>a. PhaseOnFailure = "RollingBack" => previousImage # NoImage
    BY <2>0 DEF PhaseOnFailure, RollbackTarget
  <2>1. CASE Observe
    BY <2>1 DEF Observe, statusVars
  <2>2. CASE RefuseDowngrade
    BY <2>2 DEF RefuseDowngrade, Refuse
  <2>3. CASE Timeout
    BY <2>3, <2>a DEF Timeout, Fail
  <2>4. CASE TrackPreviousImage
    BY <2>4 DEF TrackPreviousImage, PastGates
  <2>5. CASE BreakGlass
    BY <2>5 DEF BreakGlass
  <2>6. CASE AllFoundReady \/ PerformHealthChecks
    BY <2>6 DEF AllFoundReady, PerformHealthChecks, statusVars
  <2>7. CASE Unhealthy
    BY <2>7 DEF Unhealthy, statusVars
  <2>8. CASE IdleNoInstances
    BY <2>8 DEF IdleNoInstances
  <2>9. CASE IdleUpToDate
    BY <2>9 DEF IdleUpToDate
  <2>10. CASE IdleRefuse
    BY <2>10 DEF IdleRefuse, Refuse
  <2>11. CASE IdleStart
    BY <2>11 DEF IdleStart
  <2>12. CASE CanaryNone
    BY <2>12 DEF CanaryNone
  <2>13. CASE CanaryDeploy
    BY <2>13 DEF CanaryDeploy
  <2>14. CASE CanaryFailed
    BY <2>14, <2>a DEF CanaryFailed, Fail
  <2>15. CASE CanaryWait
    BY <2>15 DEF CanaryWait
  <2>16. CASE CanaryHealthError
    BY <2>16, <2>a DEF CanaryHealthError, FailTwice, Fail
  <2>17. CASE CanaryPassed
    BY <2>17 DEF CanaryPassed
  <2>18. CASE RollingRecover
    BY <2>18 DEF RollingRecover
  <2>19. CASE RollingCount
    BY <2>19 DEF RollingCount
  <2>20. CASE BatchGone
    BY <2>20 DEF BatchGone
  <2>21. CASE RollingFailed
    BY <2>21, <2>a DEF RollingFailed, Fail
  <2>22. CASE RollingWait
    BY <2>22 DEF RollingWait, statusVars
  <2>23. CASE BatchDone
    BY <2>23 DEF BatchDone
  <2>24. CASE RollingComplete
    BY <2>24 DEF RollingComplete
  <2>25. CASE RollingAssign
    BY <2>25 DEF RollingAssign
  <2>26. CASE Completed
    BY <2>26 DEF Completed
  <2>27. CASE FailedDropBatch
    BY <2>27 DEF FailedDropBatch
  <2>28. CASE FailedBreakGlass
    BY <2>28 DEF FailedBreakGlass, Restart
  <2>29. CASE FailedImageMoved
    BY <2>29 DEF FailedImageMoved, Restart
  <2>30. CASE FailedResume
    BY <2>30 DEF FailedResume, Restart
  <2>31. CASE FailedRetry
    BY <2>31 DEF FailedRetry, Retryable
  <2>32. CASE FailedBackoff
    BY <2>32 DEF FailedBackoff, statusVars
  <2>33. CASE FailedSettle
    BY <2>33, <2>a DEF FailedSettle
  <2>34. CASE RollbackUnavailable
    BY <2>34 DEF RollbackUnavailable
  <2>35. CASE RollbackAssign
    BY <2>35 DEF RollbackAssign
  <2>36. CASE RollbackConflict
    BY <2>36 DEF RollbackConflict, statusVars
  <2>37. CASE RollbackFailed
    BY <2>37 DEF RollbackFailed
  <2>38. CASE RollbackWait
    BY <2>38 DEF RollbackWait, statusVars
  <2>39. CASE RollbackDone
    BY <2>39 DEF RollbackDone
  <2>40. CASE Fleet
    BY <2>40 DEF Fleet, ReconcileUnleash, Pull, KeepImage, BecomeReady, Connect, DeploymentFails,
       channelVars, statusVars
  <2>41. CASE Environment
    BY <2>41, <2>a DEF Environment, EditSpec, BudgetMoves, ApiFails, ListError,
       ListErrorWritten, CaptureError, BreakGlassError, RecordError, DeployError, FailTwice, Fail,
       Crash, Abandon, Flaps, Flap, Faults, Fault, Joins, Join, Leaves, Leave,
       channelVars, statusVars
  <2>42. CASE UNCHANGED vars
    BY <2>42 DEF vars, statusVars
  <2> QED
    BY <2>1, <2>2, <2>3, <2>4, <2>5, <2>6, <2>7, <2>8, <2>9, <2>10, <2>11, <2>12, 
     <2>13, <2>14, <2>15, <2>16, <2>17, <2>18, <2>19, <2>20, <2>21, <2>22, <2>23, 
     <2>24, <2>25, <2>26, <2>27, <2>28, <2>29, <2>30, <2>31, <2>32, <2>33, <2>34, 
     <2>35, <2>36, <2>37, <2>38, <2>39, <2>40, <2>41, <2>42
    DEF Next, Reconcile, ExecutePhase, ExecuteIdlePhase, ExecuteCanaryPhase,
        ExecuteRollingPhase, ExecuteFailedPhase, ExecuteRollingBackPhase
<1>2. TypeOK /\ RollbackHasBaseline /\ [Next]_vars => RollbackHasBaseline'
  BY <1>1 DEF RollbackHasBaseline
<1>3. Init => RollbackHasBaseline
  BY DEF Init, RollbackHasBaseline
<1> QED
  BY <1>2, <1>3, TypeCorrect, PTL DEF Spec
=============================================================================
