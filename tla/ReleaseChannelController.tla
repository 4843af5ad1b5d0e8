---------------------- MODULE ReleaseChannelController ----------------------
(***************************************************************************)
(* The ReleaseChannel controller                                           *)
(* (internal/controller/releasechannel_controller.go): one worker, one     *)
(* pass of Reconcile at a time.                                            *)
(*                                                                         *)
(* A pass reads the channel and lists its instances (Observe), and then    *)
(* writes the channel's status up to three times.  Every write is a step   *)
(* of its own, and so is every look at the instances that lets the pass go *)
(* on to a write, because operators, instances and crashes act in between; *)
(* what the pass read earlier stays in `seen'.  A write is optimistically  *)
(* locked: it applies to the channel as it is at that moment, so the spec  *)
(* and status a step reads unprimed are those the write was based on,      *)
(* while `seen' is what the pass decided from.                             *)
(***************************************************************************)
EXTENDS Channel

Target == seen.spec.image
EndPass == pc' = "ready" /\ seen' = Forgotten

\* The pass goes on with the object its write returned.
ContinueAt(stage) == pc' = stage /\ seen' = [seen EXCEPT !.spec = spec]

-----------------------------------------------------------------------------
(* Shared steps of the phases.                                             *)

\* updateInstanceCounts: the count, and the entries of everything that is no
\* longer a target are dropped from InstanceImages.
Count(images) ==
    /\ upToDate' = Cardinality({u \in seen.members : seen.resolved[u] = Target})
    /\ instanceImages' = [u \in Instances |->
                            IF u \in seen.members THEN images[u] ELSE NoImage]

\* getInstancesToUpdate
InstancesToUpdate(image) == {u \in seen.members : seen.resolved[u] # image}

\* breakGlassAssignmentsNeeded
BreakGlassNeeded ==
    /\ seen.spec.breakGlass
    /\ \E u \in seen.members : instanceImages[u] # Target

\* Mutant of PhaseOnFailure: does not ask whether there is a baseline.
PhaseOnFailureUnchecked == IF seen.spec.rollback THEN "RollingBack" ELSE "Failed"

\* releasePhaseOnFailure
PhaseOnFailure ==
    IF seen.spec.rollback /\ RollbackTarget(seen.spec) # NoImage
    THEN "RollingBack" ELSE "Failed"

\* terminalInstanceFailure re-reads each instance, and gives up (finding no
\* failure) at the first one that is gone.
SomeFailed(S) == \E u \in S : member[u] /\ cond[u] = "failed"
NoneSeenFailed(S) == ~SomeFailed(S) \/ \E u \in S : ~member[u]

\* Mutant of AllReady: trusts conditions that say nothing of the image.
AllReadyOnAnyImage(S, image, requireConnected) ==
    \A u \in S : member[u] /\ cond[u] \in {"ready", "connected"}

\* areInstancesReady re-reads each instance and the channel.
AllReady(S, image, requireConnected) ==
    \A u \in S :
        /\ member[u]
        /\ resolved[u] = ExpectedImage(u, image)
        /\ cond[u] \in (IF requireConnected THEN {"connected"} ELSE {"ready", "connected"})

\* performHealthChecks, when enabled, re-reads the instances after they were all
\* found ready, and asks whether they are connected.  It errors for one that failed
\* or went away since; the settle delay and the HTTP endpoint may hold it back for
\* a while whatever the instances report.
Checking == pc = "verified" /\ seen.spec.healthChecks
HealthCheckError(S) == Checking /\ \E u \in S : member[u] => cond[u] = "failed"
AllHealthy(S) == \A u \in S : member[u] /\ cond[u] \in {"connected", "restarting"}

\* Ready and, if that was asked for, healthy: what is left of the pass is its write.
\* What happened to the instances since does not hold it up.
Verified == pc = (IF seen.spec.healthChecks THEN "checked" ELSE "verified")

\* deployToInstances: the images come from the spec the pass holds, the batch's
\* TargetImage from the spec as it is when the write is made.
DeployToInstances(S) ==
    /\ instanceImages' = [u \in Instances |->
            IF u \in S THEN ExpectedImage(u, Target) ELSE instanceImages[u]]
    /\ activeBatch' =
            IF phase = "Rolling" /\ (activeBatch = NoBatch \/ spec.breakGlass)
            THEN [names |-> S, image |-> spec.image]
            ELSE activeBatch

\* Mutant of Fail: the batch survives the failure.
FailKeepingBatch(newPhase, reason) ==
    phase' = newPhase /\ failure' = reason /\ UNCHANGED activeBatch

\* A rollout that ends badly.  Only Rolling has a batch to drop, and drops it.
Fail(newPhase, reason) ==
    /\ phase' = newPhase
    /\ failure' = reason
    /\ activeBatch' = IF phase = "Rolling" THEN NoBatch ELSE activeBatch

\* The phase on failure is written, and then Failed over it by recordError,
\* unless that second write does not go through.
FailTwice(reason) ==
    \/ Fail("Failed", reason) /\ lastFailure' = TRUE
    \/ Fail(PhaseOnFailure, reason) /\ UNCHANGED lastFailure

-----------------------------------------------------------------------------
(* The start of a pass, in every phase.                                    *)

\* Reconcile: Get the channel; the phase then lists the instances.
Observe ==
    /\ pc = "ready"
    /\ pc' = "observed"
    /\ seen' = Snapshot
    /\ UNCHANGED <<spec, statusVars, fleetVars, disturbances>>

\* refuseDowngrade.  Canary and Rolling check it first, Idle after the capture.
Refused ==
    DowngradeFrom(Target, seen.spec.allowDowngrade, seen.members, seen.resolved)

Refuse ==
    /\ phase' = "Idle"
    /\ activeBatch' = NoBatch
    /\ Count(instanceImages)
    /\ EndPass
    /\ UNCHANGED <<spec, previousImage, failedImage, failure, retryCount, lastFailure,
                   resumeProgress, clock, fleetVars, disturbances>>

RefuseDowngrade ==
    /\ phase \in {"Canary", "Rolling"}
    /\ pc = "observed"
    /\ Refused
    /\ Refuse

\* checkMaxUpgradeTimeExceeded, in Canary and Rolling
TimedOut == clock = "exceeded" /\ ~BreakGlassNeeded

Timeout ==
    /\ phase \in {"Canary", "Rolling"}
    /\ pc = "observed"
    /\ ~Refused
    /\ TimedOut
    /\ Fail(PhaseOnFailure, "timeout")
    /\ EndPass
    /\ UNCHANGED <<spec, instanceImages, previousImage, failedImage, retryCount,
                   lastFailure, upToDate, resumeProgress, clock, fleetVars, disturbances>>

\* ensurePreviousImageTracked, in Idle, Canary and Rolling
Baseline == RollbackBaseline(seen.members, seen.resolved)

CaptureNeeded ==
    /\ Baseline # NoImage
    /\ Baseline # Target
    /\ Baseline # previousImage

PastGates ==
    \/ phase = "Idle" /\ seen.members # {}
    \/ phase \in {"Canary", "Rolling"} /\ ~Refused /\ ~TimedOut

TrackPreviousImage ==
    /\ pc = "observed"
    /\ PastGates
    /\ CaptureNeeded
    /\ previousImage' = IF Baseline = spec.image THEN previousImage ELSE Baseline
    /\ ContinueAt("tracked")
    /\ UNCHANGED <<spec, phase, instanceImages, activeBatch, failedImage, failure,
                   retryCount, lastFailure, upToDate, resumeProgress, clock,
                   fleetVars, disturbances>>

\* The pass got past the gates and the capture, with or without a write.
Tracked ==
    \/ pc = "tracked"
    \/ pc = "observed" /\ PastGates /\ ~CaptureNeeded

-----------------------------------------------------------------------------
(* executeIdlePhase                                                        *)

\* The phase clears ActiveBatch in memory first; the capture reads it back.
IdleBatch == IF pc = "tracked" THEN activeBatch ELSE NoBatch

IdleNoInstances ==
    /\ phase = "Idle"
    /\ pc = "observed"
    /\ seen.members = {}
    /\ activeBatch' = NoBatch
    /\ upToDate' = 0
    /\ EndPass
    /\ UNCHANGED <<spec, phase, instanceImages, previousImage, failedImage, failure,
                   retryCount, lastFailure, resumeProgress, clock, fleetVars, disturbances>>

\* adoptUpToDateInstances
Adopted == [u \in Instances |->
    IF /\ u \in seen.members
       /\ seen.resolved[u] = Target
       /\ instanceImages[u] = NoImage
    THEN Target ELSE instanceImages[u]]

IdleUpToDate ==
    /\ phase = "Idle"
    /\ Tracked
    /\ InstancesToUpdate(seen.target) = {}
    /\ Count(Adopted)
    /\ activeBatch' = IdleBatch
    /\ EndPass
    /\ UNCHANGED <<spec, phase, previousImage, failedImage, failure, retryCount,
                   lastFailure, resumeProgress, clock, fleetVars, disturbances>>

IdleRefuse ==
    /\ phase = "Idle"
    /\ Tracked
    /\ InstancesToUpdate(seen.target) # {}
    /\ Refused
    /\ Refuse

IdleStart ==
    /\ phase = "Idle"
    /\ Tracked
    /\ InstancesToUpdate(seen.target) # {}
    /\ ~Refused
    /\ previousImage' = IF previousImage = NoImage THEN Baseline ELSE previousImage
    /\ Count(instanceImages)
    /\ clock' = "running"
    /\ phase' = IF seen.spec.canary THEN "Canary" ELSE "Rolling"
    /\ activeBatch' = IdleBatch
    /\ EndPass
    /\ UNCHANGED <<spec, failedImage, failure, retryCount, lastFailure,
                   resumeProgress, fleetVars, disturbances>>

-----------------------------------------------------------------------------
(* executeCanaryPhase                                                      *)

\* Break glass, in Canary and in Rolling: assign the target to every instance.
BreakGlass ==
    /\ phase \in {"Canary", "Rolling"}
    /\ Tracked
    /\ BreakGlassNeeded
    /\ DeployToInstances(seen.members)
    /\ EndPass
    /\ UNCHANGED <<spec, phase, previousImage, failedImage, failure, retryCount,
                   lastFailure, upToDate, resumeProgress, clock, fleetVars, disturbances>>

\* getCanaryInstances
SeenCanaries == IF seen.spec.canary THEN seen.members \cap Canaries ELSE {}

CanaryNone ==
    /\ phase = "Canary"
    /\ Tracked
    /\ ~BreakGlassNeeded
    /\ SeenCanaries = {}
    /\ phase' = "Rolling"
    /\ EndPass
    /\ UNCHANGED <<spec, instanceImages, previousImage, activeBatch, failedImage,
                   failure, retryCount, lastFailure, upToDate, resumeProgress,
                   clock, fleetVars, disturbances>>

CanaryDeploy ==
    /\ phase = "Canary"
    /\ Tracked
    /\ ~BreakGlassNeeded
    /\ SeenCanaries # {}
    /\ DeployToInstances(seen.members)
    /\ ContinueAt("counted")
    /\ UNCHANGED <<spec, phase, previousImage, failedImage, failure, retryCount,
                   lastFailure, upToDate, resumeProgress, clock, fleetVars, disturbances>>

\* getCanaryInstances ran before the write that refreshed the spec, and is not
\* run again; CanaryDeploy was only reached because it found some.
CanaryBatch == seen.members \cap Canaries

CanaryFailed ==
    /\ phase = "Canary"
    /\ pc = "counted"
    /\ SomeFailed(CanaryBatch)
    /\ \E reason \in ErrorKinds : Fail(PhaseOnFailure, reason)
    /\ Count(instanceImages)
    /\ EndPass
    /\ UNCHANGED <<spec, previousImage, failedImage, retryCount, lastFailure,
                   resumeProgress, clock, fleetVars, disturbances>>

CanaryHealthError ==
    /\ phase = "Canary"
    /\ HealthCheckError(CanaryBatch)
    /\ \E reason \in ErrorKinds : FailTwice(reason)
    /\ Count(instanceImages)
    /\ EndPass
    /\ UNCHANGED <<spec, previousImage, failedImage, retryCount, resumeProgress,
                   clock, fleetVars, disturbances>>

CanaryWait ==
    /\ phase = "Canary"
    /\ pc = "counted"
    /\ NoneSeenFailed(CanaryBatch)
    /\ ~AllReady(CanaryBatch, Target, TRUE)
    /\ Count(instanceImages)
    /\ EndPass
    /\ UNCHANGED <<spec, phase, previousImage, activeBatch, failedImage, failure,
                   retryCount, lastFailure, resumeProgress, clock, fleetVars, disturbances>>

CanaryPassed ==
    /\ phase = "Canary"
    /\ Verified
    /\ phase' = "Rolling"
    /\ Count(instanceImages)
    /\ EndPass
    /\ UNCHANGED <<spec, previousImage, activeBatch, failedImage, failure, retryCount,
                   lastFailure, resumeProgress, clock, fleetVars, disturbances>>

-----------------------------------------------------------------------------
(* executeRollingPhase                                                     *)

\* Mutants of Stranded: no recovery at all, and one that is content with an
\* instance that runs the target without being healthy on it.
StrandedForgotten == {}
StrandedUnhealthyIgnored ==
    {u \in seen.members : instanceImages[u] = Target /\ seen.resolved[u] # Target}

\* recoverActiveBatch: assigned the target, and not seen running it
Stranded == {u \in seen.members :
    /\ instanceImages[u] = Target
    /\ ~(seen.resolved[u] = Target /\ u \in seen.healthy)}

RollingRecover ==
    /\ phase = "Rolling"
    /\ Tracked
    /\ ~BreakGlassNeeded
    /\ activeBatch = NoBatch
    /\ Stranded # {}
    /\ activeBatch' = [names |-> Stranded, image |-> Target]
    /\ EndPass
    /\ UNCHANGED <<spec, phase, instanceImages, previousImage, failedImage, failure,
                   retryCount, lastFailure, upToDate, resumeProgress, clock,
                   fleetVars, disturbances>>

RollingCount ==
    /\ phase = "Rolling"
    /\ Tracked
    /\ ~BreakGlassNeeded
    /\ activeBatch # NoBatch \/ Stranded = {}
    /\ Count(instanceImages)
    /\ pc' = "counted"
    /\ seen' = [seen EXCEPT !.spec = spec, !.target = Target]
    /\ UNCHANGED <<spec, phase, previousImage, activeBatch, failedImage, failure,
                   retryCount, lastFailure, resumeProgress, clock, fleetVars, disturbances>>

\* activeBatchInstances
Batch == activeBatch.names \cap seen.members

\* What Rolling waits for: its batch, or at the end the whole fleet.
Awaited == IF activeBatch # NoBatch THEN Batch ELSE seen.members
AwaitedImage == IF activeBatch # NoBatch THEN activeBatch.image ELSE Target

Waiting ==
    /\ phase = "Rolling"
    /\ pc \in {"counted", "verified", "checked"}
    /\ IF activeBatch # NoBatch THEN Batch # {} ELSE InstancesToUpdate(Target) = {}

BatchGone ==
    /\ phase = "Rolling"
    /\ pc = "counted"
    /\ activeBatch # NoBatch
    /\ Batch = {}
    /\ activeBatch' = NoBatch
    /\ EndPass
    /\ UNCHANGED <<spec, phase, instanceImages, previousImage, failedImage, failure,
                   retryCount, lastFailure, upToDate, resumeProgress, clock,
                   fleetVars, disturbances>>

RollingFailed ==
    /\ Waiting
    /\ (pc = "counted" /\ SomeFailed(Awaited)) \/ HealthCheckError(Awaited)
    /\ \E reason \in ErrorKinds : Fail(PhaseOnFailure, reason)
    /\ EndPass
    /\ UNCHANGED <<spec, instanceImages, previousImage, failedImage, retryCount,
                   lastFailure, upToDate, resumeProgress, clock, fleetVars, disturbances>>

RollingWait ==
    /\ Waiting
    /\ pc = "counted"
    /\ NoneSeenFailed(Awaited)
    /\ ~AllReady(Awaited, AwaitedImage, TRUE)
    /\ EndPass
    /\ UNCHANGED <<spec, statusVars, fleetVars, disturbances>>

BatchDone ==
    /\ Waiting
    /\ activeBatch # NoBatch
    /\ Verified
    /\ activeBatch' = NoBatch
    /\ EndPass
    /\ UNCHANGED <<spec, phase, instanceImages, previousImage, failedImage, failure,
                   retryCount, lastFailure, upToDate, resumeProgress, clock,
                   fleetVars, disturbances>>

RollingComplete ==
    /\ Waiting
    /\ activeBatch = NoBatch
    /\ Verified
    /\ phase' = "Completed"
    /\ EndPass
    /\ UNCHANGED <<spec, instanceImages, previousImage, activeBatch, failedImage,
                   failure, retryCount, lastFailure, upToDate, resumeProgress,
                   clock, fleetVars, disturbances>>

\* The batch is a prefix of a List in no particular order.
BatchSize(S) ==
    LET maxParallel == IF seen.spec.maxParallel <= 0 THEN 1 ELSE seen.spec.maxParallel
    IN  IF Cardinality(S) < maxParallel THEN Cardinality(S) ELSE maxParallel

RollingAssign ==
    /\ phase = "Rolling"
    /\ pc = "counted"
    /\ activeBatch = NoBatch
    /\ InstancesToUpdate(Target) # {}
    /\ \E batch \in SUBSET InstancesToUpdate(Target) :
          /\ Cardinality(batch) = BatchSize(InstancesToUpdate(Target))
          /\ DeployToInstances(batch)
    /\ EndPass
    /\ UNCHANGED <<spec, phase, previousImage, failedImage, failure, retryCount,
                   lastFailure, upToDate, resumeProgress, clock, fleetVars, disturbances>>

-----------------------------------------------------------------------------
(* The verdicts that let a pass go on to its last write, in Canary, Rolling *)
(* and RollingBack.                                                        *)

\* areInstancesReady returns true.
AllFoundReady ==
    /\ pc = "counted"
    /\ \/ phase = "Canary" /\ AllReady(CanaryBatch, Target, TRUE)
       \/ Waiting /\ AllReady(Awaited, AwaitedImage, TRUE)
       \/ /\ phase = "RollingBack"
          /\ AllReady(seen.members, RollbackTarget(seen.spec), FALSE)
    /\ pc' = "verified"
    /\ UNCHANGED <<spec, statusVars, fleetVars, seen, disturbances>>

\* performHealthChecks returns true.
PerformHealthChecks ==
    /\ Checking
    /\ \/ phase = "Canary" /\ AllHealthy(CanaryBatch)
       \/ Waiting /\ AllHealthy(Awaited)
    /\ pc' = "checked"
    /\ UNCHANGED <<spec, statusVars, fleetVars, seen, disturbances>>

\* Not settled, not connected any more, or the HTTP endpoint does not answer.
Unhealthy ==
    /\ Checking
    /\ phase \in {"Canary", "Rolling"}
    /\ EndPass
    /\ UNCHANGED <<spec, statusVars, fleetVars, disturbances>>

-----------------------------------------------------------------------------
(* executeCompletedPhase                                                   *)

Completed ==
    /\ phase = "Completed"
    /\ pc = "observed"
    /\ phase' = "Idle"
    /\ clock' = "unset"
    /\ failure' = "none"
    /\ retryCount' = 0
    /\ lastFailure' = FALSE
    /\ activeBatch' = NoBatch
    /\ failedImage' = NoImage
    /\ resumeProgress' = 0
    /\ EndPass
    /\ UNCHANGED <<spec, instanceImages, previousImage, upToDate, fleetVars, disturbances>>

-----------------------------------------------------------------------------
(* executeFailedPhase: the branches, in the order they are tried.          *)

HandlingFailure == phase = "Failed" /\ pc = "observed"

FailedDropBatch ==
    /\ HandlingFailure
    /\ activeBatch # NoBatch
    /\ activeBatch' = NoBatch
    /\ EndPass
    /\ UNCHANGED <<spec, phase, instanceImages, previousImage, failedImage, failure,
                   retryCount, lastFailure, upToDate, resumeProgress, clock,
                   fleetVars, disturbances>>

ImageMoved == failedImage # NoImage /\ failedImage # Target
Resumable == failure = "timeout" /\ (clock = "running" \/ resumeProgress # upToDate)
RetryableUncapped == failure = "transient"  \* mutant of Retryable
Retryable == failure = "transient" /\ retryCount < MaxRetries

\* FailedImage as the pass holds it, for the branches that write it
FailedOn == IF failedImage = NoImage THEN Target ELSE failedImage

\* Back to Idle, the failure forgotten
Restart(newClock, newRetryCount) ==
    /\ phase' = "Idle"
    /\ failure' = "none"
    /\ failedImage' = NoImage
    /\ clock' = newClock
    /\ retryCount' = newRetryCount
    /\ EndPass
    /\ UNCHANGED <<spec, instanceImages, previousImage, activeBatch, upToDate,
                   fleetVars, disturbances>>

FailedBreakGlass ==
    /\ HandlingFailure
    /\ activeBatch = NoBatch
    /\ BreakGlassNeeded
    /\ Restart("unset", 0)
    /\ lastFailure' = FALSE
    /\ UNCHANGED resumeProgress

FailedImageMoved ==
    /\ HandlingFailure
    /\ activeBatch = NoBatch
    /\ ~BreakGlassNeeded
    /\ ImageMoved
    /\ Restart(clock, 0)
    /\ lastFailure' = FALSE
    /\ UNCHANGED resumeProgress

\* A timeout: the budget was raised; the recorded progress is out of date; or
\* the attempt moved instances.
FailedResume ==
    /\ HandlingFailure
    /\ activeBatch = NoBatch
    /\ ~BreakGlassNeeded
    /\ ~ImageMoved
    /\ Resumable
    /\ \/ /\ clock = "running" \/ resumeProgress > upToDate
          /\ resumeProgress' = IF clock = "running" THEN resumeProgress ELSE 0
          /\ lastFailure' = FALSE
          /\ Restart("unset", 0)
       \/ /\ clock # "running" /\ resumeProgress < upToDate
          /\ resumeProgress' = upToDate
          /\ Restart("unset", retryCount)
          /\ UNCHANGED lastFailure

\* A transient error: start the backoff, and retry once it has elapsed.
FailedRetry ==
    /\ HandlingFailure
    /\ activeBatch = NoBatch
    /\ ~BreakGlassNeeded
    /\ ~ImageMoved
    /\ Retryable
    /\ failedImage' = FailedOn
    /\ lastFailure' = ~lastFailure
    /\ IF lastFailure
       THEN /\ retryCount' = retryCount + 1
            /\ phase' = "Idle"
            /\ failure' = "none"
       ELSE UNCHANGED <<retryCount, phase, failure>>
    /\ EndPass
    /\ UNCHANGED <<spec, instanceImages, previousImage, activeBatch, upToDate,
                   resumeProgress, clock, fleetVars, disturbances>>

FailedBackoff ==
    /\ HandlingFailure
    /\ activeBatch = NoBatch
    /\ ~BreakGlassNeeded
    /\ ~ImageMoved
    /\ Retryable
    /\ lastFailure
    /\ EndPass
    /\ UNCHANGED <<spec, statusVars, fleetVars, disturbances>>

\* Nothing left to try: roll back if there is an image to roll back to, else stay.
FailedSettle ==
    /\ HandlingFailure
    /\ activeBatch = NoBatch
    /\ ~BreakGlassNeeded
    /\ ~ImageMoved
    /\ ~Resumable
    /\ ~Retryable
    /\ failedImage' = FailedOn
    /\ phase' = PhaseOnFailure
    /\ EndPass
    /\ UNCHANGED <<spec, instanceImages, previousImage, activeBatch, failure,
                   retryCount, lastFailure, upToDate, resumeProgress, clock,
                   fleetVars, disturbances>>

-----------------------------------------------------------------------------
(* executeRollingBackPhase                                                 *)

RollbackUnavailable ==
    /\ phase = "RollingBack"
    /\ pc = "observed"
    /\ RollbackTarget(seen.spec) = NoImage
    /\ phase' = "Failed"
    /\ failure' = "terminal"
    /\ activeBatch' = NoBatch
    /\ EndPass
    /\ UNCHANGED <<spec, instanceImages, previousImage, failedImage, retryCount,
                   lastFailure, upToDate, resumeProgress, clock, fleetVars, disturbances>>

\* Mutant of RollbackAssign: counts, but assigns nobody the image it goes back to.
RollbackAssignNobody ==
    /\ phase = "RollingBack"
    /\ pc = "observed"
    /\ RollbackTarget(seen.spec) # NoImage
    /\ spec = seen.spec
    /\ Count(instanceImages)
    /\ activeBatch' = NoBatch
    /\ ContinueAt("counted")
    /\ UNCHANGED <<spec, phase, previousImage, failedImage, failure, retryCount,
                   lastFailure, resumeProgress, clock, fleetVars, disturbances>>

\* The one write that does not re-read the channel: it conflicts, and the pass
\* ends there, when the spec was edited since it was read.
RollbackAssign ==
    /\ phase = "RollingBack"
    /\ pc = "observed"
    /\ RollbackTarget(seen.spec) # NoImage
    /\ spec = seen.spec
    /\ Count([u \in Instances |-> RollbackTarget(seen.spec)])
    /\ activeBatch' = NoBatch
    /\ ContinueAt("counted")
    /\ UNCHANGED <<spec, phase, previousImage, failedImage, failure, retryCount,
                   lastFailure, resumeProgress, clock, fleetVars, disturbances>>

RollbackConflict ==
    /\ phase = "RollingBack"
    /\ pc = "observed"
    /\ RollbackTarget(seen.spec) # NoImage
    /\ spec # seen.spec
    /\ EndPass
    /\ UNCHANGED <<spec, statusVars, fleetVars, disturbances>>

RollbackFailed ==
    /\ phase = "RollingBack"
    /\ pc = "counted"
    /\ SomeFailed(seen.members)
    /\ phase' = "Failed"
    /\ failure' \in ErrorKinds
    /\ EndPass
    /\ UNCHANGED <<spec, instanceImages, previousImage, activeBatch, failedImage,
                   retryCount, lastFailure, upToDate, resumeProgress, clock,
                   fleetVars, disturbances>>

RollbackWait ==
    /\ phase = "RollingBack"
    /\ pc = "counted"
    /\ NoneSeenFailed(seen.members)
    /\ ~AllReady(seen.members, RollbackTarget(seen.spec), FALSE)
    /\ EndPass
    /\ UNCHANGED <<spec, statusVars, fleetVars, disturbances>>

\* The write is of the verdict: spec.rollback.previousImage is not looked at again.
RollbackDone ==
    /\ phase = "RollingBack"
    /\ pc = "verified"
    /\ previousImage' = NoImage
    /\ phase' = "Idle"
    /\ retryCount' = 0
    /\ lastFailure' = FALSE
    /\ EndPass
    /\ UNCHANGED <<spec, instanceImages, activeBatch, failedImage, failure, upToDate,
                   resumeProgress, clock, fleetVars, disturbances>>

-----------------------------------------------------------------------------
(* A pass that does not get to its end.                                    *)

\* recordError, and the Status().Update after it
RecordError(batch) ==
    /\ phase' = "Failed"
    /\ failure' \in ErrorKinds
    /\ lastFailure' = TRUE
    /\ activeBatch' = batch
    /\ EndPass
    /\ UNCHANGED <<spec, instanceImages, previousImage, failedImage, retryCount,
                   upToDate, resumeProgress, clock, fleetVars>>

\* The List of the instances fails.  That update is optimistically locked against
\* the channel as the pass read it.
ListError ==
    /\ pc = "observed"
    /\ \/ phase \in {"Idle", "Canary"}
       \/ phase = "Failed" /\ activeBatch = NoBatch /\ seen.spec.breakGlass
    /\ spec = seen.spec
    /\ RecordError(IF phase = "Canary" THEN activeBatch ELSE NoBatch)

\* Rolling and RollingBack write the failure themselves first, to the channel as
\* it is then, so that it stands whether or not recordError's write goes through.
ListErrorWritten ==
    /\ pc = "observed"
    /\ phase = "Rolling" \/ (phase = "RollingBack" /\ RollbackTarget(seen.spec) # NoImage)
    /\ phase' = "Failed"
    /\ failure' \in ErrorKinds
    /\ lastFailure' \in {lastFailure, TRUE}
    /\ activeBatch' = NoBatch
    /\ EndPass
    /\ UNCHANGED <<spec, instanceImages, previousImage, failedImage, retryCount,
                   upToDate, resumeProgress, clock, fleetVars>>

\* The Get of ensurePreviousImageTracked fails; a batch in flight is kept.
CaptureError ==
    /\ pc = "observed"
    /\ PastGates
    /\ CaptureNeeded
    /\ spec = seen.spec
    /\ RecordError(IF phase = "Idle" THEN NoBatch ELSE activeBatch)

\* The write of deployToInstances fails, in Canary and in Rolling.
DeployError ==
    /\ \/ phase = "Canary" /\ Tracked /\ ~BreakGlassNeeded /\ SeenCanaries # {}
       \/ /\ phase = "Rolling" /\ pc = "counted"
          /\ activeBatch = NoBatch /\ InstancesToUpdate(Target) # {}
    /\ \E reason \in ErrorKinds : FailTwice(reason)
    /\ EndPass
    /\ UNCHANGED <<spec, instanceImages, previousImage, failedImage, retryCount,
                   upToDate, resumeProgress, clock, fleetVars>>

\* The same for break glass, which leaves the failure to recordError.
BreakGlassError ==
    /\ phase \in {"Canary", "Rolling"}
    /\ Tracked
    /\ BreakGlassNeeded
    /\ spec = seen.spec
    /\ RecordError(activeBatch)

\* A conflict, or a crash of the operator: what was written stays written.
Abandon ==
    /\ pc # "ready"
    /\ EndPass
    /\ UNCHANGED <<spec, statusVars, fleetVars>>

-----------------------------------------------------------------------------
(* executePhase: the steps of a pass, by phase.                            *)

ExecuteIdlePhase == IdleNoInstances \/ IdleUpToDate \/ IdleRefuse \/ IdleStart

ExecuteCanaryPhase ==
    \/ CanaryNone \/ CanaryDeploy \/ CanaryFailed \/ CanaryWait
    \/ CanaryHealthError \/ CanaryPassed

ExecuteRollingPhase ==
    \/ RollingRecover \/ RollingCount \/ BatchGone \/ RollingFailed
    \/ RollingWait \/ BatchDone \/ RollingComplete \/ RollingAssign

ExecuteFailedPhase ==
    \/ FailedDropBatch \/ FailedBreakGlass \/ FailedImageMoved \/ FailedResume
    \/ FailedRetry \/ FailedBackoff \/ FailedSettle

ExecuteRollingBackPhase ==
    \/ RollbackUnavailable \/ RollbackAssign \/ RollbackConflict
    \/ RollbackFailed \/ RollbackWait \/ RollbackDone

ExecutePhase ==
    \/ RefuseDowngrade \/ Timeout \/ TrackPreviousImage \/ BreakGlass
    \/ AllFoundReady \/ PerformHealthChecks \/ Unhealthy
    \/ ExecuteIdlePhase \/ ExecuteCanaryPhase \/ ExecuteRollingPhase
    \/ Completed \/ ExecuteFailedPhase \/ ExecuteRollingBackPhase
=============================================================================
