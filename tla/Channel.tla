------------------------------ MODULE Channel ------------------------------
(***************************************************************************)
(* The objects the rollout of a ReleaseChannel is carried by, as the API   *)
(* server stores them: the channel's spec and status                       *)
(* (api/v1/releasechannel_types.go), the status its Unleash instances      *)
(* report (api/v1/unleash_types.go), and what the one worker of the        *)
(* ReleaseChannel controller holds in memory between two calls to the API. *)
(***************************************************************************)
EXTENDS FleetVersions

CONSTANTS
    Instances,       \* the Unleash objects of the namespace
    Canaries,        \* those that match spec.strategy.canary.labelSelector
    Specs,           \* the specs operators may write to the channel
    InitSpec,        \* the one it is created with
    Broken,          \* images whose Deployment never becomes available
    MaxRetries,      \* releaseChannelMaxTransientRetries
    MaxDisturbances  \* bound on what operators and faults do, see Rollout

\* spec.rollback.enabled and onFailure are only ever read together: `rollback'.
\* spec.breakGlassImage only matters when it equals spec.image: `breakGlass'.
SpecType ==
    [image : Images, breakGlass : BOOLEAN, allowDowngrade : BOOLEAN,
     canary : BOOLEAN, maxParallel : Int, healthChecks : BOOLEAN,
     rollback : BOOLEAN, override : MaybeImage]

ASSUME InstancesAssumption == IsFiniteSet(Instances) /\ Canaries \subseteq Instances
ASSUME BrokenAssumption == Broken \subseteq Images
ASSUME SpecsAssumption == Specs \subseteq SpecType /\ InitSpec \in Specs
ASSUME BoundsAssumption == MaxRetries \in Nat /\ MaxDisturbances \in Nat

VARIABLES
    \* ReleaseChannel.spec
    spec,
    \* ReleaseChannel.status
    phase,
    instanceImages,  \* the image assigned to each instance, NoImage for none
    previousImage,
    activeBatch,
    failedImage,
    failure,         \* what kind of message failureReason holds
    retryCount,
    lastFailure,     \* is lastFailureTime set?
    upToDate,        \* instancesUpToDate
    resumeProgress,
    clock,           \* startTime against the upgrade time budget
    \* Unleash objects
    member,          \* references this channel and sets no customImage
    resolved,        \* status.resolvedReleaseChannelImage
    cond,            \* the Reconciled and Connected conditions
    \* the controller's worker
    pc,              \* how far into a pass of Reconcile it is
    seen,            \* what the pass has read
    \* the bound
    disturbances

statusVars == <<phase, instanceImages, previousImage, activeBatch, failedImage,
                failure, retryCount, lastFailure, upToDate, resumeProgress, clock>>
fleetVars == <<member, resolved, cond>>
workerVars == <<pc, seen>>
vars == <<spec, statusVars, fleetVars, workerVars, disturbances>>

Phases == {"Idle", "Canary", "Rolling", "Completed", "Failed", "RollingBack"}

\* isUpgradeTimeout and isTransientError tell failure reasons apart by their
\* text; nothing else about the text is read.
Failures == {"none", "timeout", "transient", "terminal"}
ErrorKinds == {"transient", "terminal"}

\* "unset": no startTime.  "exceeded": checkMaxUpgradeTimeExceeded holds.
Clocks == {"unset", "running", "exceeded"}

\* Which of the conditions Reconciled and Connected are True for the current
\* generation.  "pending": neither.  "ready": only Reconciled.  "restarting": only
\* Connected.  "connected": both.  "failed": Reconciled is False with reason Failed.
\* "new": the instance has not been reconciled since it references the channel.
Conditions == {"new", "pending", "ready", "restarting", "connected", "failed"}

BatchType == [names : SUBSET Instances, image : MaybeImage]
NoBatch == [names |-> {}, image |-> NoImage]

\* "ready": between passes.  Then after the first reads, after the baseline was
\* captured, after the write that precedes the verdict on the instances, after
\* they were all found ready, and after their health checks passed.
Stages == {"ready", "observed", "tracked", "counted", "verified", "checked"}

\* `target' is the image the pass works for: the one recoverActiveBatch was asked
\* about, once it was.
SeenType ==
    [spec : Specs, target : Images, members : SUBSET Instances,
     resolved : [Instances -> MaybeImage], healthy : SUBSET Instances]

Members == {u \in Instances : member[u]}

\* What the worker holds between two passes: nothing it will use again.
Forgotten ==
    [spec |-> InitSpec, target |-> InitSpec.image, members |-> {},
     resolved |-> [u \in Instances |-> NoImage], healthy |-> {}]

\* getTargetInstances (the List) on top of the Get of the channel itself
Snapshot ==
    [spec |-> spec, target |-> spec.image, members |-> Members,
     resolved |-> [u \in Instances |-> IF member[u] THEN resolved[u] ELSE NoImage],
     healthy |-> {u \in Members : cond[u] = "connected"}]

\* rollbackTarget
RollbackTarget(s) == IF s.override # NoImage THEN s.override ELSE previousImage

\* Mutant of ExpectedImage: Canary holds nobody back.
ExpectedImageUnheld(u, target) ==
    IF phase = "RollingBack" /\ RollbackTarget(spec) # NoImage
    THEN RollbackTarget(spec) ELSE target

\* getExpectedImageForInstance: `target' is the caller's image, everything else
\* is read afresh from the channel.
ExpectedImage(u, target) ==
    LET held == \/ phase = "RollingBack"
                \/ phase = "Canary" /\ ~(spec.canary /\ u \in Canaries)
    IN  IF phase = "RollingBack" /\ spec.override # NoImage THEN spec.override
        ELSE IF held /\ ~spec.breakGlass /\ previousImage # NoImage THEN previousImage
        ELSE target

\* Mutant of ResolvedImage: the phase's fallback wins over the channel's map.
ResolvedImageFallbackFirst(u) ==
    IF phase \in {"Canary", "Rolling"} /\ previousImage # NoImage THEN previousImage
    ELSE IF instanceImages[u] # NoImage THEN instanceImages[u]
    ELSE resolved[u]

\* ResolveReleaseChannelImage: what an instance of the channel pulls, NoImage
\* when the channel has nothing for it yet.
ResolvedImage(u) ==
    LET fallback == CASE phase \in {"Canary", "Rolling"} -> previousImage
                      [] phase = "RollingBack"           -> RollbackTarget(spec)
                      [] OTHER                           -> NoImage
    IN  IF instanceImages[u] # NoImage THEN instanceImages[u]
        ELSE IF fallback # NoImage THEN fallback
        ELSE resolved[u]
=============================================================================
