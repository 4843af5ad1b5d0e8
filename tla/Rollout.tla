------------------------------ MODULE Rollout ------------------------------
(***************************************************************************)
(* A ReleaseChannel rolling its image out to its Unleash instances: the    *)
(* channel's controller, the instances, the operators who edit the         *)
(* channel, and the faults.                                                *)
(*                                                                         *)
(* What operators and faults do is bounded: `Disturbances' names the kinds *)
(* that happen, and at most MaxDisturbances of them do, at any moment.     *)
(***************************************************************************)
EXTENDS ReleaseChannelController, UnleashFleet

CONSTANTS
    Disturbances,  \* the kinds of disturbance that happen
    InitFleets     \* the images the fleet may run at first, NoImage: not there yet

Kinds == {"edit", "timeout", "error", "crash", "flap", "fault", "join", "leave"}

ASSUME DisturbancesAssumption == Disturbances \subseteq Kinds
ASSUME InitAssumption == InitFleets \subseteq [Instances -> MaybeImage]

\* An instance that runs an image was given it by an earlier rollout, or by
\* another channel; either way this channel has no record of it yet.
Init ==
    /\ spec = InitSpec
    /\ phase = "Idle"
    /\ instanceImages = [u \in Instances |-> NoImage]
    /\ previousImage = NoImage
    /\ activeBatch = NoBatch
    /\ failedImage = NoImage
    /\ failure = "none"
    /\ retryCount = 0
    /\ lastFailure = FALSE
    /\ upToDate = 0
    /\ resumeProgress = 0
    /\ clock = "unset"
    /\ resolved \in InitFleets
    /\ member = [u \in Instances |-> resolved[u] # NoImage]
    /\ cond = [u \in Instances |-> IF member[u] THEN "connected" ELSE "pending"]
    /\ pc = "ready"
    /\ seen = Forgotten
    /\ disturbances = 0

Disturb(kind) ==
    /\ kind \in Disturbances
    /\ disturbances < MaxDisturbances
    /\ disturbances' = disturbances + 1

\* An operator writes the channel's spec.
EditSpec ==
    /\ Disturb("edit")
    /\ \E s \in Specs : s # spec /\ spec' = s
    /\ UNCHANGED <<statusVars, fleetVars, workerVars>>

\* The budget runs out, or spec.strategy.maxUpgradeTime is raised.
BudgetMoves ==
    /\ Disturb("timeout")
    /\ \/ clock = "running" /\ clock' = "exceeded"
       \/ clock = "exceeded" /\ clock' = "running"
    /\ UNCHANGED <<spec, phase, instanceImages, previousImage, activeBatch, failedImage,
                   failure, retryCount, lastFailure, upToDate, resumeProgress,
                   fleetVars, workerVars>>

ApiFails ==
    /\ Disturb("error")
    /\ ListError \/ ListErrorWritten \/ CaptureError \/ DeployError \/ BreakGlassError
Crash == Disturb("crash") /\ Abandon
Flaps == Disturb("flap") /\ \E u \in Instances : Flap(u)
Faults == Disturb("fault") /\ \E u \in Instances : Fault(u)
Joins == Disturb("join") /\ \E u \in Instances : Join(u)
Leaves == Disturb("leave") /\ \E u \in Instances : Leave(u)

Reconcile == Observe \/ ExecutePhase
Fleet == \E u \in Instances : ReconcileUnleash(u)
Environment ==
    \/ EditSpec \/ BudgetMoves \/ ApiFails \/ Crash
    \/ Flaps \/ Faults \/ Joins \/ Leaves

Next == Reconcile \/ Fleet \/ Environment

Spec == Init /\ [][Next]_vars

\* The worker requeues every pass, and an instance that follows a channel polls
\* it; a pass does not find the settle delay unfinished, the HTTP endpoint silent
\* or the backoff running for ever.
Fairness ==
    /\ WF_vars(Reconcile)
    /\ \A u \in Instances : WF_vars(ReconcileUnleash(u))
    /\ SF_vars(PerformHealthChecks)
    /\ SF_vars(FailedRetry)

FairSpec == Spec /\ Fairness

-----------------------------------------------------------------------------
(* Properties                                                              *)

StatusOK ==
    /\ phase \in Phases
    /\ instanceImages \in [Instances -> MaybeImage]
    /\ previousImage \in MaybeImage
    /\ activeBatch \in BatchType
    /\ failedImage \in MaybeImage
    /\ failure \in Failures
    /\ retryCount \in 0 .. MaxRetries
    /\ upToDate \in 0 .. Cardinality(Instances)
    /\ resumeProgress \in 0 .. Cardinality(Instances)
    /\ clock \in Clocks

FleetOK ==
    /\ resolved \in [Instances -> MaybeImage]
    /\ cond \in [Instances -> Conditions]

FlagsOK == lastFailure \in BOOLEAN /\ member \in [Instances -> BOOLEAN]

\* Every variable holds what the API type or the worker's local can hold; the retry
\* count stays within releaseChannelMaxTransientRetries.
TypeOK ==
    /\ spec \in Specs
    /\ StatusOK
    /\ FleetOK
    /\ FlagsOK
    /\ pc \in Stages
    /\ seen \in SeenType
    /\ disturbances \in 0 .. MaxDisturbances

\* A batch is only on record while the channel is rolling, or has just failed
\* while rolling: every other way out of executeRollingPhase drops it, so no
\* later rollout waits for a batch of an earlier one.
BatchOnlyWhileRolling ==
    activeBatch # NoBatch => phase \in {"Rolling", "Failed"}

\* releasePhaseOnFailure only rolls back when there is somewhere to go: on a
\* channel whose operators name no spec.rollback.previousImage, no pass ever finds
\* itself in RollingBack without a tracked baseline.
RollbackHasBaseline ==
    (\A s \in Specs : s.override = NoImage) =>
        (phase = "RollingBack" => previousImage # NoImage)

-----------------------------------------------------------------------------
(* What a rollout promises the fleet                                       *)

\* The instances that were given the target and are not healthy on it
InFlight == {u \in Members :
    /\ instanceImages[u] = spec.image
    /\ ~(resolved[u] = spec.image /\ cond[u] = "connected")}

\* While Rolling, never more instances than spec.strategy.maxParallel are between
\* being handed the target and being healthy on it, however often the rollout
\* times out, fails on an API error, crashes and is retried in the meantime.
MaxParallelHolds ==
    phase = "Rolling" /\ ~spec.breakGlass =>
        Cardinality(InFlight) <= IF spec.maxParallel <= 0 THEN 1 ELSE spec.maxParallel

Assigned(u, i) == instanceImages'[u] = i /\ instanceImages[u] # i

\* Instances fail, restart, leave and join at any moment.  Still executeRollingPhase
\* only assigns the image it asked recoverActiveBatch about if the pass saw every
\* instance that had been assigned that image healthy on it; an image that is edited
\* in after the question is another matter.
AssignsOnlyWhenSettled ==
    [][/\ phase = "Rolling" /\ ~seen.spec.breakGlass
       /\ \E u \in Instances : Assigned(u, seen.target)
       => \A v \in seen.members :
             instanceImages[v] = seen.target =>
                v \in seen.healthy /\ seen.resolved[v] = seen.target]_vars

\* "During canary: only canary instances get new image": an instance that is not
\* a canary is handed the target only once every canary is healthy on it.
CanariesFirst ==
    [][\A u \in Instances \ Canaries :
         /\ phase \in {"Canary", "Rolling"}
         /\ resolved[u] # spec.image
         /\ Assigned(u, spec.image)
         => \A v \in Canaries \cap Members :
               resolved[v] = spec.image /\ cond[v] = "connected"]_vars

\* The images a rollback may go to, now or after an edit
RollbackTargets == {RollbackTarget(s) : s \in Specs}

\* executeRollingBackPhase assigns, looks at the instances and reports in steps of
\* their own; spec.rollback.previousImage may be edited, and an instance deleted and
\* created again, before each.  Still, when it reports a rollback complete, every
\* instance it rolled back runs the previous image or one an operator may name to go
\* back to, or is yet to resolve its first one: none is left on the image that failed.
RollbackLands ==
    [][phase = "RollingBack" /\ phase' = "Idle" =>
         \A u \in seen.members \cap Members :
             resolved[u] \in RollbackTargets \/ cond[u] = "new"]_vars

\* Crashes, edits of the strategy and restarts of instances do not keep a channel
\* whose images work from rolling its image out to all of them, and from going idle.
Converges == <>[](phase = "Idle" /\ \A u \in Members : resolved[u] = spec.image)

\* A fleet with automatic rollback does not stay on an image that does not work.
LeavesBrokenImage == []<>(\A u \in Members : resolved[u] \notin Broken)

-----------------------------------------------------------------------------
(* What the repository says of the program, and the program does not do    *)

\* docs/releasechannel.md: "point spec.image somewhere else and let the rollout go
\* forward instead.  Changing it to any image other than the one that failed returns
\* the channel to Idle and starts a fresh rollout".  That rollout is failed by the
\* condition the canary still reports from the image before.
FixForward ==
    /\ phase = "Failed"
    /\ failedImage \notin {NoImage, spec.image}
    /\ spec.image \notin Broken
    ~> phase = "Idle" /\ \A u \in Members : resolved[u] = spec.image
=============================================================================
