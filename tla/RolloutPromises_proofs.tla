----------------------- MODULE RolloutPromises_proofs -----------------------
(***************************************************************************)
(* What a rollout promises its fleet: how many instances are in flight,    *)
(* and in which order instances get the image.  For any number of          *)
(* instances and disturbances.                                             *)
(***************************************************************************)
EXTENDS Rollout_proofs

-----------------------------------------------------------------------------
(* The steps, grouped by what they do to assignments                       *)

\* A step that ends the pass and assigns nothing.
Ends ==
    /\ pc # "ready"
    /\ EndPass
    /\ UNCHANGED <<spec, previousImage, fleetVars>>
    /\ UNCHANGED instanceImages \/ Count(instanceImages)
    /\ phase' \in {phase, "Idle", "Completed", "Failed", "RollingBack"}
    /\ phase = "RollingBack" => phase' # "Idle"

\* A step of somebody else: the worker's state and the assignments stay.
Elsewhere ==
    /\ UNCHANGED <<phase, instanceImages, previousImage, activeBatch, workerVars>>
    /\ \/ EditSpec
       \/ UNCHANGED <<spec, fleetVars>>
       \/ \E u \in Instances :
             /\ UNCHANGED spec
             /\ \/ ReconcileUnleash(u)
                \/ Disturb("flap") /\ Flap(u)
                \/ Disturb("fault") /\ Fault(u)
                \/ Disturb("join") /\ Join(u)
                \/ Disturb("leave") /\ Leave(u)

\* The steps that write assignments, start or continue a pass, or enter a phase of
\* a rollout
Writes ==
    \/ Observe \/ TrackPreviousImage \/ BreakGlass \/ IdleUpToDate \/ IdleStart
    \/ CanaryNone \/ CanaryDeploy \/ CanaryPassed
    \/ RollingCount \/ RollingAssign \/ AllFoundReady \/ PerformHealthChecks
    \/ RollbackAssign \/ RollbackDone

\* Every step is one of these.
LEMMA Steps == ASSUME [Next]_vars PROVE Writes \/ Ends \/ Elsewhere
<1> USE DEF Ends, Tracked, Waiting, HandlingFailure, Verified, Checking, HealthCheckError
<1>1. CASE RefuseDowngrade \/ IdleRefuse
  BY <1>1 DEF RefuseDowngrade, IdleRefuse, Refuse
<1>2. CASE Timeout
  BY <1>2 DEF Timeout, Fail, PhaseOnFailure
<1>3. CASE Unhealthy
  BY <1>3 DEF Unhealthy, statusVars
<1>4. CASE IdleNoInstances
  BY <1>4 DEF IdleNoInstances
<1>5. CASE CanaryFailed
  BY <1>5 DEF CanaryFailed, Fail, PhaseOnFailure
<1>6. CASE CanaryWait
  BY <1>6 DEF CanaryWait
<1>7. CASE CanaryHealthError
  BY <1>7 DEF CanaryHealthError, FailTwice, Fail, PhaseOnFailure
<1>8. CASE RollingRecover \/ BatchGone \/ BatchDone
  BY <1>8 DEF RollingRecover, BatchGone, BatchDone
<1>9. CASE RollingFailed
  BY <1>9 DEF RollingFailed, Fail, PhaseOnFailure
<1>10. CASE RollingWait
  BY <1>10 DEF RollingWait, statusVars
<1>11. CASE RollingComplete \/ Completed
  BY <1>11 DEF RollingComplete, Completed
<1>12. CASE FailedDropBatch \/ FailedRetry
  BY <1>12 DEF FailedDropBatch, FailedRetry
<1>13. CASE FailedBreakGlass \/ FailedImageMoved \/ FailedResume
  BY <1>13 DEF FailedBreakGlass, FailedImageMoved, FailedResume, Restart
<1>14. CASE FailedBackoff
  BY <1>14 DEF FailedBackoff, statusVars
<1>15. CASE FailedSettle
  BY <1>15 DEF FailedSettle, PhaseOnFailure
<1>16. CASE RollbackUnavailable \/ RollbackFailed
  BY <1>16 DEF RollbackUnavailable, RollbackFailed
<1>17. CASE RollbackConflict \/ RollbackWait
  BY <1>17 DEF RollbackConflict, RollbackWait, statusVars
<1>18. CASE ListError \/ CaptureError \/ BreakGlassError
  BY <1>18 DEF ListError, CaptureError, BreakGlassError, RecordError
<1>19. CASE ListErrorWritten
  BY <1>19 DEF ListErrorWritten
<1>20. CASE DeployError
  BY <1>20 DEF DeployError, FailTwice, Fail, PhaseOnFailure
<1>21. CASE Crash
  BY <1>21 DEF Crash, Abandon, statusVars
<1>22. CASE EditSpec
  BY <1>22 DEF EditSpec, Elsewhere, statusVars
<1>23. CASE BudgetMoves
  BY <1>23 DEF BudgetMoves, Elsewhere
<1>24. CASE Fleet
  BY <1>24 DEF Fleet, ReconcileUnleash, Pull, KeepImage, BecomeReady, Connect, DeploymentFails,
     Elsewhere, channelVars, statusVars
<1>25. CASE Flaps \/ Faults \/ Joins \/ Leaves
  BY <1>25 DEF Flaps, Flap, Faults, Fault, Joins, Join, Leaves, Leave,
     Elsewhere, channelVars, statusVars
<1>26. CASE UNCHANGED vars
  BY <1>26 DEF vars, Elsewhere, statusVars
<1> QED
  BY <1>1, <1>2, <1>3, <1>4, <1>5, <1>6, <1>7, <1>8, <1>9, <1>10, <1>11, <1>12, <1>13,
     <1>14, <1>15, <1>16, <1>17, <1>18, <1>19, <1>20, <1>21, <1>22, <1>23, <1>24, <1>25,
     <1>26
  DEF Next, Reconcile, Environment, ApiFails, Writes, ExecutePhase, ExecuteIdlePhase,
      ExecuteCanaryPhase, ExecuteRollingPhase, ExecuteFailedPhase, ExecuteRollingBackPhase

\* A step in the middle of a pass leaves the pass its list.
LEMMA PassGoesOn ==
    ASSUME TypeOK,
           \/ TrackPreviousImage \/ CanaryDeploy \/ RollingCount \/ AllFoundReady \/ PerformHealthChecks
           \/ RollbackAssign
    PROVE  /\ seen'.members = seen.members
           /\ seen'.resolved = seen.resolved
           /\ seen'.healthy = seen.healthy
           /\ seen'.target \in {seen.target, Target}
           /\ pc # "ready"
           /\ UNCHANGED <<spec, phase, member, resolved, cond>>
<1>1. seen \in SeenType
  BY DEF TypeOK
<1>2. \/ seen' = seen
      \/ seen' = [seen EXCEPT !.spec = spec]
      \/ seen' = [seen EXCEPT !.spec = spec, !.target = Target]
  BY DEF TrackPreviousImage, CanaryDeploy, RollingCount, AllFoundReady, PerformHealthChecks,
     RollbackAssign, ContinueAt
<1>3. pc # "ready" /\ UNCHANGED <<spec, phase, member, resolved, cond>>
  BY DEF TrackPreviousImage, CanaryDeploy, RollingCount, AllFoundReady, PerformHealthChecks,
     RollbackAssign, Tracked, Checking, statusVars, fleetVars
<1> QED
  BY <1>1, <1>2, <1>3 DEF SeenType

-----------------------------------------------------------------------------
(* Batches wait for each other                                             *)

\* Between the question recoverActiveBatch asks and the assignment of a new batch,
\* the answer stands: nobody in the pass's list is assigned the image and not
\* healthy on it.
Settled ==
    phase = "Rolling" /\ pc = "counted" /\ activeBatch = NoBatch =>
        \A v \in seen.members :
            instanceImages[v] = seen.target =>
                v \in seen.healthy /\ seen.resolved[v] = seen.target

\* Whatever fails, restarts, leaves, joins or is edited: no new batch is assigned the
\* image recoverActiveBatch was asked about in a pass that saw an instance of an
\* earlier batch unhealthy on it.
THEOREM BatchesWait == Spec => AssignsOnlyWhenSettled
<1> DEFINE Step ==
      /\ phase = "Rolling" /\ ~seen.spec.breakGlass
      /\ \E u \in Instances : Assigned(u, seen.target)
      => \A v \in seen.members :
            instanceImages[v] = seen.target =>
               v \in seen.healthy /\ seen.resolved[v] = seen.target
<1>1. Init => Settled
  BY DEF Init, Settled
<1>2. TypeOK /\ Settled /\ [Next]_vars => Settled'
  <2> SUFFICES ASSUME TypeOK, Settled, [Next]_vars PROVE Settled'
    OBVIOUS
  <2>1. CASE pc' # "counted"
    BY <2>1 DEF Settled
  <2>2. CASE RollingCount
    <3>1. seen \in SeenType /\ seen.members \subseteq Instances
      BY DEF TypeOK, SeenType
    <3>2. seen' = [seen EXCEPT !.spec = spec, !.target = Target] /\ activeBatch' = activeBatch
      BY <2>2 DEF RollingCount
    <3>3. /\ seen'.members = seen.members /\ seen'.healthy = seen.healthy
          /\ seen'.resolved = seen.resolved /\ seen'.target = Target
      BY <3>1, <3>2 DEF SeenType
    <3>4. \A v \in seen.members : instanceImages'[v] = instanceImages[v]
      BY <2>2, <3>1 DEF RollingCount, Count
    <3>5. activeBatch' = NoBatch => Stranded = {}
      BY <2>2, <3>2 DEF RollingCount
    <3> QED
      BY <3>3, <3>4, <3>5 DEF Settled, Stranded
  <2>3. CASE CanaryDeploy \/ RollbackAssign
    BY <2>3 DEF CanaryDeploy, RollbackAssign, Settled
  <2>4. CASE Elsewhere
    BY <2>4 DEF Elsewhere, Settled, workerVars
  <2>5. CASE Writes \/ Ends
    BY <2>1, <2>2, <2>3, <2>5 DEF Writes, Ends, EndPass, ContinueAt, Observe,
       TrackPreviousImage, BreakGlass, IdleUpToDate, IdleStart, CanaryNone, CanaryPassed,
       RollingAssign, AllFoundReady, PerformHealthChecks, RollbackDone
  <2> QED
    BY <2>4, <2>5, Steps
<1>3. TypeOK /\ Settled /\ [Next]_vars => [Step]_vars
  <2> SUFFICES ASSUME TypeOK, Settled, [Next]_vars, phase = "Rolling", ~seen.spec.breakGlass,
                      NEW u \in Instances, Assigned(u, seen.target)
               PROVE  \A v \in seen.members :
                        instanceImages[v] = seen.target =>
                           v \in seen.healthy /\ seen.resolved[v] = seen.target
    OBVIOUS
  <2>1. seen.target # NoImage
    BY ImagesAssumption DEF TypeOK, SeenType, NoImage
  <2>2. instanceImages'[u] # instanceImages[u] /\ instanceImages'[u] # NoImage
    BY <2>1 DEF Assigned
  <2>3. CASE RollingAssign
    BY <2>3 DEF RollingAssign, Settled
  <2>4. CASE Writes /\ ~RollingAssign
    <3>1. ~Count(instanceImages)
      BY <2>2 DEF Count
    <3> QED
      BY <2>2, <2>4, <3>1 DEF Writes, Observe, TrackPreviousImage, BreakGlass, BreakGlassNeeded,
         IdleUpToDate, IdleStart, CanaryNone, CanaryDeploy, CanaryPassed, RollingCount,
         AllFoundReady, PerformHealthChecks, RollbackAssign, RollbackDone, statusVars
  <2>5. CASE Ends \/ Elsewhere
    BY <2>2, <2>5 DEF Ends, Elsewhere, Count
  <2> QED
    BY <2>3, <2>4, <2>5, Steps
<1> QED
  BY <1>1, <1>2, <1>3, TypeCorrect, PTL DEF Spec, AssignsOnlyWhenSettled

-----------------------------------------------------------------------------
(* Rollbacks                                                               *)

\* From the assignment of a rollback to its last write, the instances of the pass are
\* assigned an image a rollback goes to.  Once they were all found ready they run such
\* an image, and go on doing so: what they pull next is what they are assigned.
Returning ==
    /\ phase = "RollingBack" /\ pc \in {"counted", "verified"} =>
          \A u \in seen.members : instanceImages[u] \in RollbackTargets \ {NoImage}
    /\ phase = "RollingBack" /\ pc = "verified" =>
          \A u \in seen.members \cap Members :
             resolved[u] \in RollbackTargets \/ cond[u] = "new"

\* What instances do and what happens to them between the verdict and the write
LEMMA FleetReturns ==
    ASSUME TypeOK, NEW S, NEW u \in Instances,
           ReconcileUnleash(u) \/ Flap(u) \/ Fault(u) \/ Join(u) \/ Leave(u),
           NEW v \in Instances, instanceImages[v] \in S \ {NoImage},
           member[v] => resolved[v] \in S \/ cond[v] = "new"
    PROVE  member'[v] => resolved'[v] \in S \/ cond'[v] = "new"
<1>b. ResolvedImage(v) = instanceImages[v]
  BY DEF ResolvedImage
<1>c. /\ resolved \in [Instances -> MaybeImage] /\ cond \in [Instances -> Conditions]
  BY DEF TypeOK, FleetOK
<1>1. CASE u # v
  <2>1. member'[v] = member[v]
    BY <1>1, Zenon DEF TypeOK, FlagsOK, ReconcileUnleash, Pull, KeepImage, BecomeReady, Connect,
       DeploymentFails, Flap, Fault, Join, Leave
  <2>2. resolved'[v] = resolved[v] /\ cond'[v] = cond[v]
    BY <1>1, <1>c DEF SetCond, ReconcileUnleash, Pull, KeepImage, BecomeReady, Connect,
       DeploymentFails, Flap, Fault, Join, Leave
  <2> QED
    BY <2>1, <2>2
<1>2. CASE u = v /\ (Pull(v) \/ KeepImage(v))
  BY <1>2, <1>b, <1>c DEF Pull, KeepImage
<1>3. CASE u = v /\ (BecomeReady(v) \/ Connect(v) \/ DeploymentFails(v) \/ Flap(v) \/ Fault(v))
  BY <1>3 DEF BecomeReady, Connect, DeploymentFails, Flap, Fault
<1>4. CASE u = v /\ Join(v)
  BY <1>4, <1>c DEF Join, SetCond
<1>5. CASE u = v /\ Leave(v)
  <2>1. member'[v] = FALSE
    BY <1>5, Zenon DEF Leave, TypeOK, FlagsOK
  <2> QED
    BY <2>1
<1> QED
  BY <1>1, <1>2, <1>3, <1>4, <1>5 DEF ReconcileUnleash

\* Whatever operators edit and whichever instances leave, are created again, restart
\* or fail between the steps of a pass: when executeRollingBackPhase reports a rollback
\* complete, every instance it rolled back runs the previous image or an override of
\* some spec, or is yet to resolve its first image.
THEOREM RollbacksLand == Spec => RollbackLands
<1> DEFINE Step ==
      phase = "RollingBack" /\ phase' = "Idle" =>
        \A u \in seen.members \cap Members :
           resolved[u] \in RollbackTargets \/ cond[u] = "new"
<1>1. Init => Returning
  BY DEF Init, Returning
<1>2. TypeOK /\ Returning /\ [Next]_vars => Returning'
  <2> SUFFICES ASSUME TypeOK, Returning, [Next]_vars PROVE Returning'
    OBVIOUS
  <2>a. /\ seen.members \subseteq Instances /\ seen.spec \in Specs /\ spec \in Specs
        /\ \A s \in Specs : RollbackTarget(s) \in RollbackTargets
    BY DEF TypeOK, SeenType, RollbackTargets
  <2>b. UNCHANGED previousImage => RollbackTargets' = RollbackTargets
    BY DEF RollbackTargets, RollbackTarget
  <2>1. CASE phase' # "RollingBack" \/ pc' \notin {"counted", "verified"}
    BY <2>1 DEF Returning
  <2>2. CASE Elsewhere
    <3>1. /\ UNCHANGED <<phase, instanceImages, pc, seen>> /\ RollbackTargets' = RollbackTargets
      BY <2>2, <2>b DEF Elsewhere, workerVars
    <3>2. ASSUME phase = "RollingBack", pc = "verified", NEW v \in seen.members, member'[v]
          PROVE  resolved'[v] \in RollbackTargets \/ cond'[v] = "new"
      <4>1. /\ v \in Instances /\ instanceImages[v] \in RollbackTargets \ {NoImage}
            /\ member[v] => resolved[v] \in RollbackTargets \/ cond[v] = "new"
        BY <2>a, <3>2 DEF Returning, Members
      <4>2. \/ UNCHANGED fleetVars
            \/ \E u \in Instances :
                  ReconcileUnleash(u) \/ Flap(u) \/ Fault(u) \/ Join(u) \/ Leave(u)
        BY <2>2 DEF Elsewhere, EditSpec
      <4>3. CASE UNCHANGED fleetVars
        BY <3>2, <4>1, <4>3 DEF fleetVars
      <4> QED
        BY <3>2, <4>1, <4>2, <4>3, FleetReturns
    <3> QED
      BY <3>1, <3>2 DEF Returning, Members
  <2>3. CASE RollbackAssign
    <3>1. seen'.members = seen.members /\ RollbackTargets' = RollbackTargets
      BY <2>3, <2>b, PassGoesOn DEF RollbackAssign
    <3>2. \A u \in seen.members : instanceImages'[u] = RollbackTarget(seen.spec)
      BY <2>3, <2>a DEF RollbackAssign, Count
    <3> QED
      BY <2>3, <2>a, <3>1, <3>2 DEF RollbackAssign, ContinueAt, Returning
  <2>4. CASE AllFoundReady /\ phase = "RollingBack"
    <3>1. /\ UNCHANGED <<phase, instanceImages, seen, resolved>> /\ pc = "counted"
          /\ RollbackTargets' = RollbackTargets /\ Members' = Members
      BY <2>4, <2>b DEF AllFoundReady, statusVars, fleetVars, Members
    <3>2. AllReady(seen.members, RollbackTarget(seen.spec), FALSE)
      BY <2>4 DEF AllFoundReady, Waiting
    <3>3. \A u \in seen.members :
             \E s \in Specs : ExpectedImage(u, RollbackTarget(seen.spec)) = RollbackTarget(s)
      <4>1. ExpectedImage(0, RollbackTarget(seen.spec)) \in {RollbackTarget(spec), RollbackTarget(seen.spec)}
        BY <2>4 DEF ExpectedImage, RollbackTarget
      <4> QED
        BY <2>4, <2>a, <4>1 DEF ExpectedImage
    <3>4. \A u \in seen.members : resolved[u] \in RollbackTargets
      BY <2>a, <3>2, <3>3 DEF AllReady
    <3> QED
      BY <3>1, <3>4 DEF Returning
  <2>5. CASE Writes \/ Ends
    BY <2>1, <2>3, <2>4, <2>5 DEF Writes, Ends, EndPass, ContinueAt, Observe, Waiting,
       TrackPreviousImage, BreakGlass, IdleUpToDate, IdleStart, CanaryNone, CanaryDeploy,
       CanaryPassed, RollingCount, RollingAssign, AllFoundReady, PerformHealthChecks,
       RollbackDone, statusVars
  <2> QED
    BY <2>2, <2>5, Steps
<1>3. Returning /\ [Next]_vars => [Step]_vars
  <2> SUFFICES ASSUME Returning, [Next]_vars, phase = "RollingBack", phase' = "Idle"
               PROVE  \A u \in seen.members \cap Members :
                         resolved[u] \in RollbackTargets \/ cond[u] = "new"
    OBVIOUS
  <2>1. RollbackDone
    BY Steps DEF Writes, Ends, Elsewhere, Observe, TrackPreviousImage, BreakGlass, IdleUpToDate,
       IdleStart, CanaryNone, CanaryDeploy, CanaryPassed, RollingCount, RollingAssign,
       AllFoundReady, PerformHealthChecks, RollbackAssign, statusVars
  <2> QED
    BY <2>1 DEF RollbackDone, Returning
<1> QED
  BY <1>1, <1>2, <1>3, TypeCorrect, PTL DEF Spec, RollbackLands

-----------------------------------------------------------------------------
(* A fleet that only the rollout disturbs                                  *)

\* No instance joins, restarts or fails by itself: those put instances out of health
\* that the rollout has finished with.
Calm == Disturbances \cap {"flap", "fault", "join"} = {}

\* Operators edit anything but the image.
OneImage == \A s \in Specs : s.image = InitSpec.image /\ ~s.breakGlass

\* Everything that references the channel runs something, the pass's list misses none
\* of the fleet, and the image a rollback goes to is not the one the rollout goes to.
Listed ==
    /\ \A u \in Members : resolved[u] # NoImage
    /\ \A u \in seen.members : seen.resolved[u] # NoImage
    /\ pc # "ready" => Members \subseteq seen.members
    /\ seen.target = InitSpec.image
    /\ previousImage # InitSpec.image

\* On a calm fleet, what moves an instance is a Pull, and then it is not healthy.
LEMMA CalmFleet ==
    ASSUME Calm, TypeOK, Elsewhere
    PROVE  \/ UNCHANGED fleetVars
           \/ \E u \in Instances : Pull(u)
           \/ /\ UNCHANGED <<member, resolved>>
              /\ \E u \in Instances, c \in Conditions :
                    cond[u] # "connected" /\ cond' = [cond EXCEPT ![u] = c]
           \/ \E u \in Instances : Leave(u)
<1>1. ~Disturb("flap") /\ ~Disturb("fault") /\ ~Disturb("join")
  BY DEF Calm, Disturb
<1>2. CASE EditSpec
  BY <1>2 DEF EditSpec
<1>3. CASE \E u \in Instances : ReconcileUnleash(u) \/ Leave(u)
  BY <1>3 DEF ReconcileUnleash, KeepImage, BecomeReady, Connect, DeploymentFails, SetCond, Conditions
<1> QED
  BY <1>1, <1>2, <1>3 DEF Elsewhere

\* All specs the worker and the operators hold name the one image.
LEMMA TheImage ==
    ASSUME TypeOK, OneImage
    PROVE  /\ spec.image = InitSpec.image /\ Target = InitSpec.image
           /\ ~spec.breakGlass /\ ~seen.spec.breakGlass
           /\ InitSpec.image \in Images /\ InitSpec.image # NoImage
           /\ seen.members \subseteq Instances
BY SpecsAssumption, ImagesAssumption DEF OneImage, TypeOK, SeenType, SpecType, Target, NoImage

\* Listed holds at first.
LEMMA ListedInit == Init => Listed
<1> SUFFICES ASSUME Init PROVE Listed
  OBVIOUS
<1>1. InitSpec.image # NoImage
  BY SpecsAssumption, ImagesAssumption DEF SpecType, NoImage
<1>2. \A u \in Members : resolved[u] # NoImage
  BY Zenon DEF Init, Members
<1>3. seen.members = {} /\ seen.target = InitSpec.image /\ pc = "ready"
  BY DEF Init, Forgotten
<1>4. previousImage = NoImage
  BY DEF Init
<1> QED
  BY <1>1, <1>2, <1>3, <1>4 DEF Listed

\* Every step keeps Listed.  The baseline that IdleStart falls back on is not the
\* target because some listed instance runs something else.
LEMMA ListedStep ==
    ASSUME Calm, OneImage, TypeOK, Listed, [Next]_vars
    PROVE  Listed'
<1>a. /\ spec.image = InitSpec.image /\ Target = InitSpec.image
      /\ InitSpec.image \in Images /\ InitSpec.image # NoImage
      /\ seen.members \subseteq Instances
  BY TheImage
<1>1. CASE Elsewhere
  <2>1. /\ UNCHANGED <<pc, seen, previousImage>>
        /\ Members' \subseteq Members
        /\ \A u \in Members' : resolved'[u] # NoImage
    <3>1. CASE UNCHANGED fleetVars \/ UNCHANGED <<member, resolved>>
      BY <1>1, <3>1 DEF Elsewhere, workerVars, fleetVars, Members, Listed
    <3>2. ASSUME NEW u \in Instances, Pull(u) \/ Leave(u)
          PROVE  Members' \subseteq Members /\ \A v \in Members' : resolved'[v] # NoImage
      BY <1>1, <3>2 DEF Elsewhere, workerVars, Members, Listed, Pull, Leave, TypeOK, FleetOK, FlagsOK
    <3>3. UNCHANGED <<pc, seen, previousImage>>
      BY <1>1 DEF Elsewhere, workerVars
    <3> QED
      BY <1>1, <3>1, <3>2, <3>3, CalmFleet, Zenon
  <2> QED
    BY <2>1 DEF Listed
<1>2. CASE Ends
  BY <1>2, <1>a DEF Ends, EndPass, Listed, Forgotten, fleetVars, Members
<1>3. CASE Observe
  BY <1>3, <1>a DEF Observe, Snapshot, Listed, fleetVars, statusVars, Members
<1>4. CASE TrackPreviousImage
  BY <1>4, <1>a, PassGoesOn DEF TrackPreviousImage, Listed, Members
<1>5. CASE IdleStart
  <2>1. PICK u \in seen.members : seen.resolved[u] # InitSpec.image
    BY <1>5 DEF IdleStart, InstancesToUpdate, Listed
  <2>2. Baseline # InitSpec.image
    BY <2>1, <1>a, BaselineIsUnanimous DEF Baseline, Listed
  <2> QED
    BY <1>5, <1>a, <2>2 DEF IdleStart, EndPass, Forgotten, Listed, fleetVars, Members
<1>6. CASE CanaryDeploy \/ RollbackAssign \/ RollingCount \/ AllFoundReady \/ PerformHealthChecks
  BY <1>6, <1>a, PassGoesOn DEF CanaryDeploy, RollbackAssign, RollingCount, AllFoundReady,
     PerformHealthChecks, Listed, Members, statusVars
<1>7. CASE RollbackDone
  BY <1>7, <1>a DEF RollbackDone, EndPass, Forgotten, Listed, fleetVars, Members
<1>8. CASE BreakGlass \/ IdleUpToDate \/ CanaryNone \/ CanaryPassed \/ RollingAssign
  BY <1>8, <1>a DEF BreakGlass, IdleUpToDate, CanaryNone, CanaryPassed, RollingAssign,
     EndPass, Forgotten, Listed, fleetVars, Members
<1> QED
  BY <1>1, <1>2, <1>3, <1>4, <1>5, <1>6, <1>7, <1>8, Steps DEF Writes

-----------------------------------------------------------------------------
(* How many instances are in flight                                        *)

\* Operators edit neither the number of parallel upgrades nor the canaries in or
\* out, and do not name the rollout's own image as the one to roll back to.
OneWidth ==
    \A s \in Specs :
        s.maxParallel = InitSpec.maxParallel /\ ~s.canary /\ s.override # s.image

Par == IF InitSpec.maxParallel <= 0 THEN 1 ELSE InitSpec.maxParallel

\* What the pass holds of an instance that is done with the image is still true of
\* it; so is what it would adopt; and nobody gets to the image unassigned.
StillHealthy ==
    /\ \A u \in Members :
          instanceImages[u] = NoImage /\ resolved[u] = InitSpec.image => cond[u] = "connected"
    /\ \A u \in Members \cap seen.members :
          /\ instanceImages[u] = InitSpec.image
          /\ u \in seen.healthy
          /\ seen.resolved[u] = InitSpec.image
          => resolved[u] = InitSpec.image /\ cond[u] = "connected"
    /\ \A u \in Members \cap seen.members :
          /\ phase = "Idle"
          /\ pc \in {"observed", "tracked"}
          /\ instanceImages[u] = NoImage
          /\ seen.resolved[u] = InitSpec.image
          => resolved[u] = InitSpec.image

\* Before a batch is assigned, none is in flight.
Landed == phase = "Rolling" /\ pc = "counted" /\ activeBatch = NoBatch => InFlight = {}

\* The specs name nothing that a rollback could take to the rollout's image.
LEMMA RollsBackElsewhere ==
    ASSUME TypeOK, OneImage, OneWidth, Listed
    PROVE  /\ RollbackTarget(spec) # InitSpec.image
           /\ RollbackTarget(seen.spec) # InitSpec.image
           /\ previousImage # InitSpec.image
           /\ ~seen.spec.canary
BY DEF TypeOK, SeenType, OneImage, OneWidth, Listed, RollbackTarget

\* A step of somebody else puts nobody in flight, and nobody out of health.
LEMMA ElsewhereLands ==
    ASSUME Calm, OneImage, OneWidth, TypeOK, Listed, StillHealthy, Elsewhere, TypeOK'
    PROVE  StillHealthy' /\ InFlight' \subseteq InFlight
<1> DEFINE I == InitSpec.image
<1>a. /\ spec.image = I /\ spec'.image = I /\ I # NoImage
      /\ seen.members \subseteq Instances
  <2>1. spec' \in Specs
    BY DEF TypeOK
  <2> QED
    BY <2>1, TheImage DEF OneImage
<1>b. UNCHANGED <<phase, instanceImages, previousImage, pc, seen>>
  BY DEF Elsewhere, workerVars
<1>1. CASE UNCHANGED fleetVars
  BY <1>1, <1>a, <1>b DEF fleetVars, StillHealthy, InFlight, Members
<1>2. ASSUME NEW u \in Instances, Pull(u) PROVE StillHealthy' /\ InFlight' \subseteq InFlight
  <2>1. /\ member' = member /\ member[u]
        /\ resolved'[u] = ResolvedImage(u) /\ resolved[u] # ResolvedImage(u)
        /\ \A v \in Instances \ {u} : resolved'[v] = resolved[v] /\ cond'[v] = cond[v]
    BY <1>2 DEF Pull, SetCond, TypeOK, FleetOK
  <2>2. instanceImages[u] = I => ResolvedImage(u) = I
    BY <1>a DEF ResolvedImage
  <2>3. instanceImages[u] = NoImage => ResolvedImage(u) # I /\ phase # "Idle"
    BY <1>a, <2>1, RollsBackElsewhere DEF ResolvedImage
  <2>4. u \in Members /\ Members' = Members
    BY <2>1 DEF Members
  <2>5. InFlight' \subseteq InFlight
    BY <1>a, <1>b, <2>1, <2>2, <2>4 DEF InFlight, Members
  <2> QED
    BY <1>a, <1>b, <2>1, <2>2, <2>3, <2>4, <2>5 DEF StillHealthy, Members
<1>3. ASSUME UNCHANGED <<member, resolved>>,
             NEW u \in Instances, NEW c \in Conditions,
             cond[u] # "connected", cond' = [cond EXCEPT ![u] = c]
      PROVE  StillHealthy' /\ InFlight' \subseteq InFlight
  <2>1. \A v \in Instances : cond[v] = "connected" => cond'[v] = "connected"
    BY <1>3 DEF TypeOK, FleetOK
  <2>2. Members' = Members
    BY <1>3 DEF Members
  <2> QED
    BY <1>3, <1>a, <1>b, <2>1, <2>2 DEF StillHealthy, InFlight, Members
<1>4. ASSUME NEW u \in Instances, Leave(u) PROVE StillHealthy' /\ InFlight' \subseteq InFlight
  <2>1. Members' \subseteq Members \ {u}
    BY <1>4, Zenon DEF Leave, Members, TypeOK, FlagsOK
  <2>2. \A v \in Instances \ {u} : resolved'[v] = resolved[v] /\ cond'[v] = cond[v]
    BY <1>4 DEF Leave, SetCond, TypeOK, FleetOK
  <2>3. Members \subseteq Instances
    BY DEF Members
  <2> QED
    BY <1>a, <1>b, <2>1, <2>2, <2>3 DEF StillHealthy, InFlight
<1> QED
  BY <1>1, <1>2, <1>3, <1>4, CalmFleet

\* Whatever a pass writes to the fleet's assignments, only RollingAssign puts
\* instances in flight.
LEMMA PassLands ==
    ASSUME OneImage, OneWidth, TypeOK, Listed, StillHealthy, Landed, phase # "Canary",
           Ends \/ (Writes /\ ~RollingAssign)
    PROVE  StillHealthy' /\ Landed' /\ phase' # "Canary" /\ InFlight' \subseteq InFlight
<1> DEFINE I == InitSpec.image
<1>a. /\ spec.image = I /\ Target = I /\ I # NoImage /\ ~seen.spec.breakGlass
      /\ seen.members \subseteq Instances
  BY TheImage
<1>b. Members \subseteq Instances
  BY DEF Members
<1>c. ASSUME Count(instanceImages), pc # "ready"
      PROVE  \A u \in Members : instanceImages'[u] = instanceImages[u]
  BY <1>c, <1>a DEF Count, Listed
<1>d. ASSUME EndPass PROVE seen'.members = {} /\ pc' = "ready"
  BY <1>d DEF EndPass, Forgotten
<1>1. CASE Ends
  <2>1. \A u \in Members : instanceImages'[u] = instanceImages[u]
    BY <1>1, <1>c DEF Ends
  <2>2. UNCHANGED <<spec, member, resolved, cond>> /\ Members' = Members /\ phase' # "Canary"
    BY <1>1 DEF Ends, fleetVars, Members
  <2> QED
    BY <1>1, <1>d, <2>1, <2>2 DEF Ends, StillHealthy, Landed, InFlight
<1>2. CASE Observe
  <2>1. /\ UNCHANGED <<spec, phase, instanceImages, member, resolved, cond>>
        /\ Members' = Members /\ pc' = "observed"
    BY <1>2 DEF Observe, statusVars, fleetVars, Members
  <2>2. \A u \in Members :
           /\ seen'.resolved[u] = resolved[u]
           /\ u \in seen'.healthy => cond[u] = "connected"
    BY <1>2 DEF Observe, Snapshot, Members
  <2> QED
    BY <2>1, <2>2 DEF StillHealthy, Landed, InFlight
<1>3. CASE TrackPreviousImage \/ AllFoundReady \/ PerformHealthChecks
  <2>1. /\ UNCHANGED <<phase, instanceImages>> /\ pc' \in {"tracked", "verified", "checked"}
        /\ pc' = "tracked" => pc = "observed"
    BY <1>3 DEF TrackPreviousImage, AllFoundReady, PerformHealthChecks, statusVars, ContinueAt
  <2>2. Members' = Members
    BY <1>3, PassGoesOn DEF Members
  <2> QED
    BY <1>3, <2>1, <2>2, PassGoesOn DEF StillHealthy, Landed, InFlight
<1>4. CASE IdleUpToDate
  <2>1. /\ UNCHANGED <<spec, phase, member, resolved, cond>> /\ Members' = Members
        /\ EndPass /\ Count(Adopted) /\ phase = "Idle" /\ pc \in {"observed", "tracked"}
    BY <1>4 DEF IdleUpToDate, Tracked, fleetVars, Members
  <2>2. \A u \in Members : instanceImages'[u] = Adopted[u]
    BY <2>1, <1>b DEF Count, Listed
  <2>3. ASSUME NEW u \in Members
        PROVE  \/ instanceImages'[u] = instanceImages[u]
               \/ instanceImages'[u] = I /\ resolved[u] = I /\ cond[u] = "connected"
    BY <1>a, <1>b, <2>1, <2>2 DEF Adopted, StillHealthy, Listed
  <2> QED
    BY <1>a, <1>d, <2>1, <2>3 DEF StillHealthy, Landed, InFlight
<1>5. CASE IdleStart
  <2>1. /\ UNCHANGED <<spec, member, resolved, cond>> /\ Members' = Members
        /\ EndPass /\ phase' = "Rolling" /\ Count(instanceImages) /\ pc # "ready"
    BY <1>5, RollsBackElsewhere DEF IdleStart, Tracked, fleetVars, Members
  <2> QED
    BY <1>c, <1>d, <2>1 DEF StillHealthy, Landed, InFlight
<1>6. CASE RollingCount
  <2>1. /\ phase = "Rolling" /\ pc' = "counted" /\ Count(instanceImages)
        /\ activeBatch' = activeBatch
        /\ activeBatch = NoBatch => Stranded = {}
    BY <1>6 DEF RollingCount
  <2>2. /\ UNCHANGED <<spec, phase, member, resolved, cond>> /\ Members' = Members
        /\ seen'.members = seen.members /\ seen'.resolved = seen.resolved
        /\ seen'.healthy = seen.healthy /\ pc # "ready"
    BY <1>6, PassGoesOn DEF Members
  <2>3. \A u \in Members : instanceImages'[u] = instanceImages[u]
    BY <1>c, <2>1, <2>2
  <2>4. activeBatch = NoBatch => InFlight = {}
    BY <1>a, <2>1, <2>2 DEF InFlight, Stranded, StillHealthy, Listed
  <2>5. InFlight' = InFlight
    BY <2>2, <2>3 DEF InFlight
  <2> QED
    BY <2>1, <2>2, <2>3, <2>4, <2>5 DEF StillHealthy, Landed
<1>7. CASE RollbackAssign
  <2>1. /\ phase = "RollingBack" /\ RollbackTarget(seen.spec) # NoImage
        /\ Count([u \in Instances |-> RollbackTarget(seen.spec)])
    BY <1>7 DEF RollbackAssign
  <2>2. /\ UNCHANGED <<spec, phase, member, resolved, cond>> /\ Members' = Members
        /\ pc # "ready"
    BY <1>7, PassGoesOn DEF Members
  <2>3. \A u \in Members : instanceImages'[u] \notin {I, NoImage}
    BY <1>b, <2>1, <2>2, RollsBackElsewhere DEF Count, Listed
  <2> QED
    BY <1>a, <2>1, <2>2, <2>3 DEF StillHealthy, Landed, InFlight
<1>8. CASE RollbackDone
  <2>1. /\ UNCHANGED <<spec, instanceImages, member, resolved, cond>> /\ Members' = Members
        /\ EndPass /\ phase' = "Idle"
    BY <1>8 DEF RollbackDone, fleetVars, Members
  <2> QED
    BY <1>d, <2>1 DEF StillHealthy, Landed, InFlight
<1>9. ~(BreakGlass \/ CanaryNone \/ CanaryDeploy \/ CanaryPassed)
  BY <1>a DEF BreakGlass, BreakGlassNeeded, CanaryNone, CanaryDeploy, CanaryPassed
<1> QED
  BY <1>1, <1>2, <1>3, <1>4, <1>5, <1>6, <1>7, <1>8, <1>9 DEF Writes

\* A batch is no larger than maxParallel, and alone in flight.
LEMMA AssignLands ==
    ASSUME OneImage, OneWidth, TypeOK, Listed, StillHealthy, Landed, RollingAssign
    PROVE  /\ StillHealthy' /\ Landed' /\ phase' = "Rolling"
           /\ Cardinality(InFlight') <= Par
<1> DEFINE I == InitSpec.image
           S == InstancesToUpdate(Target)
<1>a. /\ spec.image = I /\ Target = I /\ I # NoImage /\ seen.members \subseteq Instances
  BY TheImage
<1>1. /\ UNCHANGED <<spec, member, resolved, cond>> /\ Members' = Members
      /\ EndPass /\ phase = "Rolling" /\ phase' = "Rolling"
  BY DEF RollingAssign, fleetVars, Members
<1>2. InFlight = {}
  BY DEF RollingAssign, Landed
<1>3. PICK batch \in SUBSET S : Cardinality(batch) = BatchSize(S) /\ DeployToInstances(batch)
  BY DEF RollingAssign
<1>4. \A u \in Members : instanceImages'[u] = IF u \in batch THEN I ELSE instanceImages[u]
  BY <1>a, <1>1, <1>3 DEF DeployToInstances, ExpectedImage, Members
<1>5. InFlight' \subseteq batch
  BY <1>a, <1>1, <1>2, <1>4 DEF InFlight
<1>6. IsFiniteSet(batch) /\ IsFiniteSet(S)
  BY <1>a, InstancesAssumption, FS_Subset DEF InstancesToUpdate
<1>7. Cardinality(batch) <= Par
  <2>1. seen.spec.maxParallel = InitSpec.maxParallel /\ InitSpec.maxParallel \in Int
    BY SpecsAssumption DEF OneWidth, TypeOK, SeenType, SpecType
  <2>2. Cardinality(S) \in Nat
    BY <1>6, FS_CardinalityType
  <2> QED
    BY <1>3, <2>1, <2>2 DEF BatchSize, Par
<1>8. Cardinality(InFlight') <= Par
  <2>1. Cardinality(InFlight') <= Cardinality(batch) /\ IsFiniteSet(InFlight')
    BY <1>5, <1>6, FS_Subset
  <2>2. Cardinality(InFlight') \in Nat /\ Cardinality(batch) \in Nat /\ Par \in Int
    BY <1>6, <2>1, FS_CardinalityType, SpecsAssumption DEF Par, SpecType
  <2> QED
    BY <1>7, <2>1, <2>2
<1>9. seen'.members = {} /\ pc' = "ready"
  BY <1>1 DEF EndPass, Forgotten
<1> QED
  BY <1>a, <1>1, <1>4, <1>8, <1>9 DEF StillHealthy, Landed

\* However often the rollout times out, fails, crashes, is rolled back and is retried,
\* and whichever instances leave: while Rolling, never more instances than
\* spec.strategy.maxParallel are between being handed the image and being healthy on
\* it.  For channels without canaries whose fleet is not disturbed from elsewhere, and
\* whose operators edit anything but the image and maxParallel.
THEOREM RolloutsAreNarrow ==
    ASSUME Calm, OneImage, OneWidth
    PROVE  Spec => []MaxParallelHolds
<1> DEFINE Inv ==
      /\ Listed /\ StillHealthy /\ Landed
      /\ phase # "Canary"
      /\ Cardinality(InFlight) <= Par
<1>a. ASSUME TypeOK
      PROVE  IsFiniteSet(InFlight) /\ Cardinality(InFlight) \in Nat /\ Par \in Int
  BY InstancesAssumption, SpecsAssumption, FS_Subset, FS_CardinalityType
  DEF InFlight, Members, Par, SpecType
<1>1. TypeOK /\ Init => Inv
  <2> SUFFICES ASSUME TypeOK, Init PROVE Inv
    OBVIOUS
  <2>1. InFlight = {}
    BY TheImage DEF Init, InFlight, Members
  <2>2. seen.members = {} /\ phase = "Idle"
    BY DEF Init, Forgotten
  <2>3. \A u \in Members : cond[u] = "connected"
    BY Zenon DEF Init, Members
  <2>4. Cardinality(InFlight) <= Par
    BY <2>1, <1>a, FS_EmptySet, SpecsAssumption DEF Par, SpecType
  <2> QED
    BY <2>1, <2>2, <2>3, <2>4, ListedInit DEF StillHealthy, Landed
<1>2. TypeOK /\ TypeOK' /\ Inv /\ [Next]_vars => Inv'
  <2> SUFFICES ASSUME TypeOK, TypeOK', Inv, [Next]_vars PROVE Inv'
    OBVIOUS
  <2>1. Listed'
    BY ListedStep
  <2>2. CASE RollingAssign
    BY <2>1, <2>2, AssignLands DEF Par
  <2>3. CASE ~RollingAssign
    <3>1. StillHealthy' /\ phase' # "Canary" /\ Landed' /\ InFlight' \subseteq InFlight
      <4>1. CASE Elsewhere
        <5>1. StillHealthy' /\ InFlight' \subseteq InFlight
          BY <4>1, ElsewhereLands
        <5>2. UNCHANGED <<phase, pc, activeBatch>>
          BY <4>1 DEF Elsewhere, workerVars
        <5> QED
          BY <5>1, <5>2 DEF Landed
      <4> QED
        BY <2>3, <4>1, Steps, PassLands
    <3>2. Cardinality(InFlight') <= Cardinality(InFlight) /\ Cardinality(InFlight') \in Nat
      BY <3>1, <1>a, FS_Subset, FS_CardinalityType
    <3> QED
      BY <2>1, <3>1, <3>2, <1>a DEF Par
  <2> QED
    BY <2>2, <2>3
<1>3. TypeOK /\ Inv => MaxParallelHolds
  BY DEF MaxParallelHolds, Par, OneWidth, TypeOK
<1> QED
  BY <1>1, <1>2, <1>3, TypeCorrect, PTL DEF Spec

-----------------------------------------------------------------------------
(* Canaries first                                                          *)

\* Operators neither switch the canaries off nor name an image to roll back to.
AlwaysCanary == \A s \in Specs : s.canary /\ s.override = NoImage

\* The fleet starts out on one image.
Agreed == \A f \in InitFleets : \E i \in Images : \A u \in Instances : f[u] \in {NoImage, i}

\* The fleet is only without a baseline while it is on one image and stays there, so
\* that there is one again before the next rollout.
Baselined ==
    /\ previousImage = NoImage => phase \notin {"Canary", "Rolling", "RollingBack"}
    /\ previousImage = NoImage =>
          \E i \in Images :
             /\ \A u \in Members : resolved[u] = i /\ instanceImages[u] \in {NoImage, i}
             /\ \A u \in seen.members : seen.resolved[u] = i
    /\ phase = "RollingBack" /\ pc \in {"counted", "verified"} =>
          \A u \in Members : instanceImages[u] = previousImage
    /\ phase = "RollingBack" /\ pc = "verified" =>
          \A u \in Members : resolved[u] = previousImage

\* A canary that was assigned the image and found healthy on it stays that.
Proven(v) ==
    /\ instanceImages[v] = InitSpec.image
    /\ resolved[v] = InitSpec.image
    /\ cond[v] = "connected"

CanariesAhead ==
    /\ phase = "Canary" /\ pc \in {"counted", "verified", "checked"} =>
          \A v \in Canaries \cap Members : instanceImages[v] = InitSpec.image
    /\ phase = "Rolling" \/ (phase = "Canary" /\ pc \in {"verified", "checked"}) =>
          \A v \in Canaries \cap Members : Proven(v)

\* A fleet that agrees has a baseline.
LEMMA AgreedBaseline ==
    ASSUME NEW S, NEW f, NEW i, i # NoImage, S # {}, \A u \in S : f[u] = i
    PROVE  RollbackBaseline(S, f) = i
<1>1. DeployedImages(S, f) = {i}
  BY DEF DeployedImages
<1> QED
  BY <1>1 DEF RollbackBaseline

\* All the specs say the same of canaries and rollbacks.
LEMMA TheRollback ==
    ASSUME TypeOK, AlwaysCanary
    PROVE  /\ spec.canary /\ seen.spec.canary
           /\ spec.override = NoImage /\ seen.spec.override = NoImage
           /\ RollbackTarget(spec) = previousImage /\ RollbackTarget(seen.spec) = previousImage
BY DEF AlwaysCanary, TypeOK, SeenType, RollbackTarget

\* A step of somebody else moves no canary that is done, and no fleet that has no
\* baseline.
LEMMA ElsewhereAhead ==
    ASSUME Calm, OneImage, AlwaysCanary, TypeOK, Baselined, CanariesAhead, Elsewhere
    PROVE  Baselined' /\ CanariesAhead'
<1>a. InitSpec.image # NoImage /\ Members \subseteq Instances
  BY TheImage DEF Members
<1>b. UNCHANGED <<phase, instanceImages, previousImage, pc, seen>>
  BY DEF Elsewhere, workerVars
<1>1. CASE UNCHANGED fleetVars
  BY <1>1, <1>b DEF fleetVars, Baselined, CanariesAhead, Proven, Members
<1>2. ASSUME NEW u \in Instances, Pull(u) PROVE Baselined' /\ CanariesAhead'
  <2>1. /\ member' = member /\ member[u]
        /\ resolved[u] # ResolvedImage(u)
        /\ \A v \in Instances \ {u} : resolved'[v] = resolved[v] /\ cond'[v] = cond[v]
    BY <1>2 DEF Pull, SetCond, TypeOK, FleetOK
  <2>2. u \in Members /\ Members' = Members
    BY <2>1 DEF Members
  <2>3. ~Proven(u)
    BY <1>a, <2>1 DEF Proven, ResolvedImage
  <2>4. previousImage # NoImage
    BY <2>1, <2>2 DEF Baselined, ResolvedImage
  <2>5. Baselined'
    <3>1. ~(phase = "RollingBack" /\ pc = "verified")
      BY <2>1, <2>2, <2>4 DEF Baselined, ResolvedImage
    <3> QED
      BY <1>b, <2>2, <2>4, <3>1 DEF Baselined
  <2>6. \A v \in Members : Proven(v) => Proven(v)'
    BY <1>a, <1>b, <2>1, <2>3 DEF Proven
  <2> QED
    BY <1>b, <2>2, <2>5, <2>6 DEF CanariesAhead
<1>3. ASSUME UNCHANGED <<member, resolved>>,
             NEW u \in Instances, NEW c \in Conditions,
             cond[u] # "connected", cond' = [cond EXCEPT ![u] = c]
      PROVE  Baselined' /\ CanariesAhead'
  <2>1. \A v \in Instances : cond[v] = "connected" => cond'[v] = "connected"
    BY <1>3 DEF TypeOK, FleetOK
  <2>2. Members' = Members
    BY <1>3 DEF Members
  <2>3. \A v \in Members : Proven(v) => Proven(v)'
    BY <1>3, <1>a, <1>b, <2>1 DEF Proven
  <2> QED
    BY <1>3, <1>b, <2>2, <2>3 DEF Baselined, CanariesAhead
<1>4. ASSUME NEW u \in Instances, Leave(u) PROVE Baselined' /\ CanariesAhead'
  <2>1. Members' \subseteq Members \ {u}
    BY <1>4, Zenon DEF Leave, Members, TypeOK, FlagsOK
  <2>2. \A v \in Instances \ {u} : resolved'[v] = resolved[v] /\ cond'[v] = cond[v]
    BY <1>4 DEF Leave, SetCond, TypeOK, FleetOK
  <2>3. \A v \in Members' : Proven(v) => Proven(v)'
    BY <1>a, <1>b, <2>1, <2>2 DEF Proven
  <2>4. Baselined'
    BY <1>a, <1>b, <2>1, <2>2 DEF Baselined
  <2> QED
    BY <1>b, <2>1, <2>3, <2>4 DEF CanariesAhead
<1> QED
  BY <1>1, <1>2, <1>3, <1>4, CalmFleet

\* So do the steps of a pass.
LEMMA PassAhead ==
    ASSUME OneImage, AlwaysCanary, TypeOK, Listed, Baselined, CanariesAhead,
           RollbackHasBaseline', Ends \/ Writes
    PROVE  Baselined' /\ CanariesAhead'
<1> DEFINE I == InitSpec.image
<1>a. /\ spec.image = I /\ Target = I /\ I # NoImage /\ I \in Images
      /\ ~spec.breakGlass /\ ~seen.spec.breakGlass
      /\ seen.members \subseteq Instances /\ Members \subseteq Instances
  BY TheImage DEF Members
<1>b. ASSUME Count(instanceImages), pc # "ready"
      PROVE  \A u \in Members : instanceImages'[u] = instanceImages[u]
  BY <1>a, <1>b DEF Count, Listed
<1>c. ASSUME EndPass PROVE seen'.members = {} /\ pc' = "ready"
  BY <1>c DEF EndPass, Forgotten
<1>1. CASE Ends
  <2>1. \A u \in Members : instanceImages'[u] = instanceImages[u]
    BY <1>1, <1>b DEF Ends
  <2>2. /\ UNCHANGED <<previousImage, resolved, cond>> /\ Members' = Members
        /\ seen'.members = {} /\ pc' = "ready"
        /\ phase' \in {phase, "Idle", "Completed", "Failed", "RollingBack"}
    BY <1>1, <1>c DEF Ends, fleetVars, Members
  <2>3. phase' = "RollingBack" => previousImage # NoImage
    BY <2>2 DEF RollbackHasBaseline, AlwaysCanary
  <2>4. Baselined'
    BY <2>1, <2>2, <2>3 DEF Baselined
  <2> QED
    BY <2>1, <2>2, <2>4 DEF CanariesAhead, Proven
<1>2. CASE Observe
  <2>1. /\ UNCHANGED <<phase, previousImage, instanceImages, resolved, cond>>
        /\ Members' = Members /\ pc' = "observed"
        /\ seen'.members = Members /\ \A u \in Members : seen'.resolved[u] = resolved[u]
    BY <1>2 DEF Observe, Snapshot, statusVars, fleetVars, Members
  <2>2. Baselined'
    BY <2>1 DEF Baselined
  <2> QED
    BY <2>1, <2>2 DEF CanariesAhead, Proven
<1>3. CASE TrackPreviousImage
  <2>1. /\ previousImage' = Baseline /\ Baseline # NoImage
        /\ UNCHANGED instanceImages /\ pc' = "tracked"
        /\ phase \in {"Idle", "Canary", "Rolling"}
    BY <1>3, <1>a DEF TrackPreviousImage, CaptureNeeded, ContinueAt, PastGates
  <2>2. UNCHANGED <<phase, resolved, cond>> /\ Members' = Members
    BY <1>3, PassGoesOn DEF Members
  <2> QED
    BY <2>1, <2>2 DEF Baselined, CanariesAhead, Proven
<1>4. CASE IdleUpToDate
  <2>1. /\ UNCHANGED <<phase, previousImage, resolved, cond>> /\ Members' = Members
        /\ EndPass /\ Count(Adopted) /\ phase = "Idle" /\ pc # "ready"
    BY <1>4 DEF IdleUpToDate, Tracked, fleetVars, Members
  <2>2. \A u \in Members :
           \/ instanceImages'[u] = instanceImages[u]
           \/ instanceImages'[u] = seen.resolved[u]
    BY <1>a, <2>1 DEF Count, Listed, Adopted
  <2>3. Members \subseteq seen.members
    BY <2>1 DEF Listed
  <2> QED
    BY <1>c, <2>1, <2>2, <2>3 DEF Baselined, CanariesAhead
<1>5. CASE IdleStart
  <2>1. /\ UNCHANGED <<resolved, cond>> /\ Members' = Members /\ EndPass
        /\ phase' = "Canary"
        /\ previousImage' = IF previousImage = NoImage THEN Baseline ELSE previousImage
        /\ InstancesToUpdate(seen.target) # {}
    BY <1>5, TheRollback DEF IdleStart, fleetVars, Members
  <2>2. previousImage = NoImage => Baseline # NoImage
    <3> SUFFICES ASSUME previousImage = NoImage PROVE Baseline # NoImage
      OBVIOUS
    <3>1. PICK i \in Images : \A u \in seen.members : seen.resolved[u] = i
      BY DEF Baselined
    <3>2. seen.members # {} /\ i # NoImage
      BY <2>1, ImagesAssumption DEF InstancesToUpdate, NoImage
    <3> QED
      BY <3>1, <3>2, AgreedBaseline DEF Baseline
  <2> QED
    BY <1>c, <2>1, <2>2 DEF Baselined, CanariesAhead
<1>6. CASE CanaryNone
  <2>1. /\ UNCHANGED <<instanceImages, previousImage, resolved, cond>> /\ Members' = Members
        /\ EndPass /\ phase = "Canary" /\ pc # "ready" /\ seen.members \cap Canaries = {}
    BY <1>6, TheRollback DEF CanaryNone, Tracked, SeenCanaries, fleetVars, Members
  <2>2. Canaries \cap Members = {}
    BY <2>1 DEF Listed
  <2> QED
    BY <1>6, <1>c, <2>1, <2>2 DEF CanaryNone, Baselined, CanariesAhead
<1>7. CASE CanaryDeploy
  <2>1. /\ phase = "Canary" /\ pc' = "counted" /\ DeployToInstances(seen.members)
        /\ UNCHANGED previousImage
    BY <1>7 DEF CanaryDeploy, ContinueAt
  <2>2. UNCHANGED <<phase, resolved, cond>> /\ Members' = Members /\ pc # "ready"
    BY <1>7, PassGoesOn DEF Members
  <2>3. \A v \in Canaries \cap Members : instanceImages'[v] = I
    BY <1>a, <2>1, <2>2, TheRollback DEF DeployToInstances, ExpectedImage, Listed
  <2> QED
    BY <2>1, <2>2, <2>3 DEF Baselined, CanariesAhead
<1>8. CASE CanaryPassed
  <2>1. /\ phase = "Canary" /\ phase' = "Rolling" /\ pc \in {"verified", "checked"}
        /\ UNCHANGED <<previousImage, resolved, cond>> /\ Members' = Members
        /\ EndPass /\ Count(instanceImages)
    BY <1>8 DEF CanaryPassed, Verified, fleetVars, Members
  <2>2. \A u \in Members : instanceImages'[u] = instanceImages[u]
    BY <1>b, <2>1
  <2> QED
    BY <1>c, <2>1, <2>2 DEF Baselined, CanariesAhead, Proven
<1>9. CASE RollingCount
  <2>1. /\ phase = "Rolling" /\ pc' = "counted" /\ UNCHANGED previousImage
        /\ Count(instanceImages)
    BY <1>9 DEF RollingCount
  <2>2. UNCHANGED <<phase, resolved, cond>> /\ Members' = Members /\ pc # "ready"
    BY <1>9, PassGoesOn DEF Members
  <2>3. \A u \in Members : instanceImages'[u] = instanceImages[u]
    BY <1>b, <2>1, <2>2
  <2> QED
    BY <2>1, <2>2, <2>3 DEF Baselined, CanariesAhead, Proven
<1>10. CASE RollingAssign
  <2>1. /\ UNCHANGED <<phase, previousImage, resolved, cond>> /\ Members' = Members
        /\ EndPass /\ phase = "Rolling"
    BY <1>10 DEF RollingAssign, fleetVars, Members
  <2>2. \A u \in Members : instanceImages'[u] \in {instanceImages[u], I}
    BY <1>10, <1>a DEF RollingAssign, DeployToInstances, ExpectedImage
  <2> QED
    BY <1>c, <2>1, <2>2 DEF Baselined, CanariesAhead, Proven
<1>11. CASE AllFoundReady
  <2>1. UNCHANGED <<phase, instanceImages, previousImage>> /\ pc = "counted" /\ pc' = "verified"
    BY <1>11 DEF AllFoundReady, statusVars
  <2>2. UNCHANGED <<resolved, cond>> /\ Members' = Members
    BY <1>11, PassGoesOn DEF Members
  <2>3. phase = "Canary" => \A v \in Canaries \cap Members : Proven(v)
    <3> SUFFICES ASSUME phase = "Canary" PROVE \A v \in Canaries \cap Members : Proven(v)
      OBVIOUS
    <3>1. AllReady(CanaryBatch, Target, TRUE) /\ Canaries \cap Members \subseteq CanaryBatch
      BY <1>11 DEF AllFoundReady, Waiting, CanaryBatch, Listed
    <3> QED
      BY <1>a, <2>1, <3>1, TheRollback DEF AllReady, ExpectedImage, CanaryBatch, CanariesAhead, Proven
  <2>4. phase = "RollingBack" => \A u \in Members : resolved[u] = previousImage
    <3> SUFFICES ASSUME phase = "RollingBack" PROVE \A u \in Members : resolved[u] = previousImage
      OBVIOUS
    <3>1. AllReady(seen.members, previousImage, FALSE) /\ Members \subseteq seen.members
      BY <1>11, TheRollback DEF AllFoundReady, Waiting, Listed
    <3> QED
      BY <1>a, <3>1, TheRollback DEF AllReady, ExpectedImage
  <2>5. seen' = seen
    BY <1>11 DEF AllFoundReady
  <2> QED
    BY <2>1, <2>2, <2>3, <2>4, <2>5 DEF Baselined, CanariesAhead, Proven
<1>12. CASE RollbackAssign
  <2>1. /\ phase = "RollingBack" /\ pc' = "counted" /\ UNCHANGED previousImage
        /\ Count([u \in Instances |-> previousImage])
    BY <1>12, TheRollback DEF RollbackAssign, ContinueAt
  <2>2. UNCHANGED <<phase, resolved, cond>> /\ Members' = Members /\ pc # "ready"
    BY <1>12, PassGoesOn DEF Members
  <2>3. \A u \in Members : instanceImages'[u] = previousImage
    BY <1>a, <2>1, <2>2 DEF Count, Listed
  <2> QED
    BY <2>1, <2>2, <2>3 DEF Baselined, CanariesAhead
<1>13. CASE RollbackDone
  <2>1. /\ phase = "RollingBack" /\ pc = "verified" /\ phase' = "Idle"
        /\ UNCHANGED <<instanceImages, resolved, cond>> /\ Members' = Members /\ EndPass
    BY <1>13 DEF RollbackDone, fleetVars, Members
  <2>2. previousImage \in Images
    BY <2>1 DEF Baselined, TypeOK, StatusOK, MaybeImage
  <2>3. \A u \in Members : resolved[u] = previousImage /\ instanceImages[u] = previousImage
    BY <2>1 DEF Baselined
  <2> QED
    BY <1>c, <2>1, <2>2, <2>3 DEF Baselined, CanariesAhead
<1>14. CASE PerformHealthChecks
  <2>1. /\ UNCHANGED <<phase, instanceImages, previousImage, seen>>
        /\ pc = "verified" /\ pc' = "checked" /\ phase \in {"Canary", "Rolling"}
    BY <1>14 DEF PerformHealthChecks, Checking, Waiting, statusVars
  <2>2. UNCHANGED <<resolved, cond>> /\ Members' = Members
    BY <1>14, PassGoesOn DEF Members
  <2> QED
    BY <2>1, <2>2 DEF Baselined, CanariesAhead, Proven
<1>15. ~BreakGlass
  BY <1>a DEF BreakGlass, BreakGlassNeeded
<1> QED
  BY <1>1, <1>2, <1>3, <1>4, <1>5, <1>6, <1>7, <1>8, <1>9, <1>10, <1>11, <1>12, <1>13, <1>14,
     <1>15
  DEF Writes

\* Whatever fails, times out, crashes, is rolled back and is retried, and whichever
\* instances leave: an instance that is not a canary is handed the image only once
\* every canary is healthy on it.  For fleets that start out on one image and are not
\* disturbed from elsewhere, and operators who edit anything but the image, and keep
\* the canaries.
THEOREM CanariesGoFirst ==
    ASSUME Calm, OneImage, AlwaysCanary, Agreed
    PROVE  Spec => CanariesFirst
<1> DEFINE Inv == Listed /\ Baselined /\ CanariesAhead
           Step == \A u \in Instances \ Canaries :
              /\ phase \in {"Canary", "Rolling"}
              /\ resolved[u] # spec.image
              /\ Assigned(u, spec.image)
              => \A v \in Canaries \cap Members :
                    resolved[v] = spec.image /\ cond[v] = "connected"
<1>1. Init => Inv
  <2> SUFFICES ASSUME Init PROVE Inv
    OBVIOUS
  <2>1. PICK i \in Images : \A u \in Instances : resolved[u] \in {NoImage, i}
    BY DEF Init, Agreed
  <2>2. phase = "Idle" /\ pc = "ready" /\ seen.members = {}
    BY DEF Init, Forgotten
  <2>3. \A u \in Members : resolved[u] = i /\ instanceImages[u] = NoImage
    BY <2>1, ListedInit DEF Init, Listed, Members
  <2> QED
    BY <2>2, <2>3, ListedInit DEF Baselined, CanariesAhead
<1>2. TypeOK /\ RollbackHasBaseline' /\ Inv /\ [Next]_vars => Inv'
  <2> SUFFICES ASSUME TypeOK, RollbackHasBaseline', Inv, [Next]_vars PROVE Inv'
    OBVIOUS
  <2>1. Listed'
    BY ListedStep
  <2>2. CASE Elsewhere
    BY <2>1, <2>2, ElsewhereAhead
  <2>3. CASE Ends \/ Writes
    BY <2>1, <2>3, PassAhead
  <2> QED
    BY <2>2, <2>3, Steps
<1>3. TypeOK /\ Inv /\ [Next]_vars => [Step]_vars
  <2> SUFFICES ASSUME TypeOK, Inv, [Next]_vars,
                      NEW u \in Instances \ Canaries,
                      phase \in {"Canary", "Rolling"}, Assigned(u, spec.image)
               PROVE  \A v \in Canaries \cap Members :
                         resolved[v] = spec.image /\ cond[v] = "connected"
    OBVIOUS
  <2>a. /\ spec.image = InitSpec.image /\ InitSpec.image # NoImage
        /\ ~spec.breakGlass /\ ~seen.spec.breakGlass
    BY TheImage
  <2>1. CASE phase = "Rolling"
    BY <2>1, <2>a DEF CanariesAhead, Proven
  <2>2. CASE phase = "Canary"
    <3>1. instanceImages'[u] = InitSpec.image /\ instanceImages[u] # InitSpec.image
      BY <2>a DEF Assigned
    <3>2. ~Count(instanceImages) /\ ~UNCHANGED instanceImages
      BY <2>a, <3>1 DEF Count
    <3>3. ~CanaryDeploy
      <4> SUFFICES ASSUME CanaryDeploy PROVE FALSE
        OBVIOUS
      <4>1. instanceImages'[u] \in {previousImage, instanceImages[u]}
        BY <2>2, <2>a DEF CanaryDeploy, DeployToInstances, ExpectedImage, Baselined
      <4> QED
        BY <3>1, <4>1 DEF Listed
    <3> QED
      BY <2>2, <2>a, <3>2, <3>3, Steps
      DEF Writes, Ends, Elsewhere, Observe, TrackPreviousImage, BreakGlass, BreakGlassNeeded,
          IdleUpToDate, IdleStart, CanaryNone, CanaryPassed, RollingCount, RollingAssign,
          AllFoundReady, PerformHealthChecks, RollbackAssign, RollbackDone, statusVars
  <2> QED
    BY <2>1, <2>2
<1> QED
  BY <1>1, <1>2, <1>3, TypeCorrect, RollbacksHaveBaselines, PTL DEF Spec, CanariesFirst
=============================================================================
