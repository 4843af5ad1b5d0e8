# Unleasherator in TLA+

Unleasherator is a Kubernetes operator that runs Unleash feature-toggle servers.
This directory models its controllers and the federation between clusters, model-checks them with TLC on
small instances and proves their main safety properties with TLAPS for every
instance. Paths below are relative to `src/`; `PROJECT.json` maps every definition to
the lines it translates.

## 1. Inventory

| Component | State it keeps | Operations | Hard because | Here |
|---|---|---|---|---|
| ReleaseChannel controller (`internal/controller/releasechannel_controller.go`) | the channel's status: phase, `instanceImages`, `previousImage`, `activeBatch`, `failedImage`, failure reason, retry count, progress | one reconcile pass per phase: Idle, Canary, Rolling, Completed, Failed, RollingBack | a pass writes up to three times; spec edits, instances, crashes and errors act in between; retries, timeouts and rollback reset different parts of the status | `Channel`, `ReleaseChannelController`, `Rollout`, `UpgradeBudget` |
| Version comparison (`internal/controller/releasechannel_version.go`) | none | `deployedImages`, `rollbackBaseline`, `fleetImage`, `downgradeFrom` | ties, images without a version | `FleetVersions` |
| Unleash controller (`internal/controller/unleash_controller.go`, `internal/resources/unleash.go`) | an instance's Deployment and other objects; `resolvedReleaseChannelImage`; the Reconciled and Connected conditions | resolve the image from the channel, publish it, reconcile, test the connection, finalize, publish to federation | reconciles independently of the channel that reads its conditions | the channel's side: `UnleashFleet`; secrets, publication and deletion: `FederationPublisher` |
| ApiToken controller (`internal/controller/apitoken_controller.go`) | the ApiToken's status and finalizer, a Secret, tokens inside Unleash | look up, create, store, delete superseded tokens; clean up on deletion with a deadline | every call may fail after having had its effect; tokens are immutable and names not unique | `ApiTokens` |
| Unleash admin API client (`internal/unleashclient`) | none | list, create, delete tokens; health; statistics | non-idempotent creation | its effects: `ApiTokens`, `RemoteUnleashController` |
| RemoteUnleash controller (`internal/controller/remoteunleash_controller.go`, `remoteunleash_validation.go`) | finalizer and status of each RemoteUnleash | validate the admin secret, call the server, report, finalize | the object and its secret are rewritten by two other writers meanwhile | `RemoteUnleashController` |
| Federation (`internal/federation`, the handler in `remoteunleash_controller.go`, `publish` in `unleash_controller.go`) | `lastPublishedHash`; publish-time stamps on RemoteUnleash objects; admin secrets in one of two layouts | publish, provision, retract | redelivery, partial application, check-then-act over several objects, nacks that block a key | `FederationPublisher`, `FederationSubscriber`, `Federation`; abstractly `Placement` |
| Admin secret migration (`internal/controller/remoteunleash_migration.go`) | the old and the new admin secret | stamp, create, repoint, delete | a crash between any two steps; runs next to the federation handler | `RemoteUnleashController` |
| Object builders, configuration, start-up, observability, generated code | none that a controller reads back | | | not modelled |

How they interact. The ReleaseChannel controller never touches an instance: it writes
an image per instance into its own status. Each instance's controller polls that status
(`ResolveReleaseChannelImage`), deploys the image, and reports in its own status which
image it resolved and whether it is ready and connected; the channel reads that report
back. So a rollout is a conversation between two controllers through two status
subresources, neither of which is ever locked for longer than one write. The ApiToken
controller reads Unleash and RemoteUnleash objects, and otherwise talks only to the
Unleash server and its own Secret. Federation crosses clusters: the Unleash controller of the
management cluster publishes where an instance should be served; in every other cluster one handler turns
the messages into RemoteUnleash objects and admin secrets, while one RemoteUnleash worker per object validates,
connects and, with the migration on, moves the same secrets. Handler and workers share nothing but the API server.

What makes each part correct:

- *Rollout*: at most `maxParallel` instances in flight; canaries first; no batch outlives
  its rollout; a rollback has somewhere to go and is only reported complete when it is;
  the channel converges.
- *Versions*: an upgrade is refused for the sake of the many and not of the few.
- *Federation*: only a newer message ends what a message placed; a retraction that is acknowledged was carried
  out; the cluster ends up as the last message says.
- *RemoteUnleash and migration*: no RemoteUnleash loses or swaps its credential; one that would be accepted is
  connected; what can be migrated is.
- *ApiToken*: the application's Secret keeps working through a rotation; tokens do not
  pile up; deletion leaves none behind and ends; the spec is eventually satisfied.

`PROJECT.json` lists the hazards of the code one by one, each with the properties that
cover it or the reason none does yet.

## 2. Modules

| Module | Contents |
|---|---|
| `FleetVersions` | the pure functions of `releasechannel_version.go`; an image is a number, its order the lexicographic order of the references, `Version` the version found in its tag |
| `Channel` | the variables (channel spec and status, instances' status, the worker's memory) and the two functions that decide an instance's image: `ExpectedImage` (`getExpectedImageForInstance`) and `ResolvedImage` (`ResolveReleaseChannelImage`) |
| `ReleaseChannelController` | one action per outcome of each `execute...Phase`, and the helpers they share |
| `UnleashFleet` | one instance: `Pull`, `KeepImage`, `BecomeReady`, `Connect`, `DeploymentFails`; and what happens to it: `Fault`, `Flap`, `Join`, `Leave` |
| `Rollout` | the composition with operators and faults, the fairness, the properties |
| `ApiTokens` | the ApiToken controller, its object, its Secret and the tokens in Unleash; the properties |
| `UpgradeBudget` | `batchAllowance` and `upgradeTimeBudget` in units of half a minute |
| `FederatedCluster` | state, messages, secrets and object writes that federation shares |
| `FederationPublisher` | the management cluster: operator secret, publication, goodbye, deletion |
| `FederationSubscriber` | the handler of messages: examine, then write in bulk |
| `RemoteUnleashController` | one worker per RemoteUnleash: finalizer, validation, connection, migration |
| `Placement` | the abstract specification: messages in order, and what is served where |
| `Federation` | the composition with Pub/Sub, restarts and redeployments, fairness, properties, the refinement |
| `MCRollout`, `MCApiTokens`, `MCFleetVersions`, `MCFederation` | small instances for TLC |
| `Rollout_proofs`, `ApiTokens_proofs`, `Federation_proofs` | types, the invariants that need no restriction, the refinement |
| `RolloutPromises_proofs`, `FederationPromises_proofs` | what a rollout and federation promise, built on the former |
| `FleetVersions_proofs` | what the recursive functions compute |

### The rollout

**A pass.** There is one worker per controller and it reconciles a channel one pass at a
time. `Observe` is the Get of the channel and the List of its instances; it puts both in
`seen`. What follows depends on the phase. `pc` says how far the pass is: `observed`,
`tracked` (after `ensurePreviousImageTracked` wrote a baseline), `counted` (after the
write that precedes the verdict on the instances), `verified` (`areInstancesReady` said yes),
`checked` (`performHealthChecks` did, too). Every status write is a step, and so is each of the
two verdicts that let a pass go on to one (`AllFoundReady`, `PerformHealthChecks`): what happens
between verdict and write, an edit of `spec.rollback.previousImage` say, does not hold the write up.
A verdict that ends the rollout (`SomeFailed`, `HealthCheckError`) is one step with its
write, which depends on nothing but that verdict and what the pass holds. `updateReleaseChannelStatus` and
`deployToInstances` re-read the channel and retry on conflict, so a write applies to the
channel as it is then: in an action, the unprimed `spec` and status are what the write
was based on, and `seen` what the pass decided from. `ContinueAt` is the refreshed object
those helpers leave in the caller's hand. `executeRollingBackPhase` is the exception: its first
write is a plain `Status().Update`, which conflicts after an edit (`RollbackConflict`).

`areInstancesReady`, `terminalInstanceFailure` and `performHealthChecks` re-read every
instance, so `AllReady`, `SomeFailed` and `AllHealthy` read `resolved` and `cond`, not `seen`.

**Data kept.** Images are numbers; failure reasons are the three kinds `isUpgradeTimeout` and
`isTransientError` tell apart; `startTime` against the budget is `unset`, `running` or
`exceeded`, and the budget may run out or be raised at any moment; the two conditions of an
instance are one of `new` (nothing resolved for this channel yet), `pending`, `ready` (Reconciled), `connected` (both),
`restarting` (Connected, not Reconciled: enough for a health check, not for `areInstancesReady`), `failed`. `spec.rollback.enabled` and
`onFailure` are only read together and are one Boolean; `breakGlassImage` only matters when it
equals `spec.image` and is one too.

**Disturbances.** Operators edit the spec; the budget runs out; a List, a Get or a write of the
API fails; the operator crashes or loses a write to a conflict; instances restart, fail,
are deleted and created. All happen at any moment, `MaxDisturbances` times in all. The
runs name the kinds they allow.

**Left out of it.** The channel's finalizer and deletion. The `Validating` phase, which nothing
enters. Metrics, events, phase-transition timestamps. A status write that fails for a reason other than a
conflict, apart from those of `ApiFails`, ends the pass like a crash: that `recordError` may
then still write Failed is only modelled for the failures `ApiFails` names. The failed write of the count in
Rolling, over which the code only logs and goes on, is not modelled. The per-instance Gets of
`deployToInstances` and of the readiness checks happen at one moment. An instance that switches
to another channel or to `customImage` leaves between passes. The controller reads the
channel as stored, without the lag of the informer cache.

### The ApiToken

`AddFinalizer` and `Observe` start a pass; then `List`, `Create` if nothing matches, `StoreSecret`,
`Prune` for each superseded token and `Succeed`, or, when the object is being deleted, `CleanupList`,
`Purge` for each token and `Release`. Each has a failing counterpart; `CreateFails`, `PruneFails` and
`CleanupFails` may have had their effect on the Unleash side. Only the first call of a pass follows a look
at the Unleash object (`IsReady`); the later ones may succeed or fail whatever has become of it. A token's `id` is its secret and its
place in the order of `created_at`. Unleash itself is external: it stores what it was
asked to store. `type` and `environment` are compared alike and are one field; `spec.secretName` does not change; an instance without usable credentials counts as `missing`; setting
the finalizer and the first, unknown, status conditions are one step.

### The upgrade budget

`Budget` is `upgradeTimeBudget` over the strategy's durations, any of which may be unset, and the number of
instances; `RolloutTime` in `MCFleetVersions` is the reference: batch after batch, each with its allowance and a wake-up.
The rollout model itself lets the budget run out at any moment.

### Federation

One instance, one subscribing cluster. All messages about an instance carry its name as ordering key, so the topic is a
sequence `log`; a position in it stands for the publish time, `next` is the first message not acknowledged. `Redeliver`
sets `next` back: Pub/Sub then delivers that message and every later one of the key again, in order.

**The handler.** A message is ignored (`Ignore`) or taken (`Take`). Then each namespace is examined in up to four reads:
`ReadRemoteUnleash`; `ReadSecret` of the secret the object named *then* (`cur.ref`); to provision also `ReadReferences`, if the
message brings another key, and `ReadSuperseded`. `cur.ask` is the question that comes next. What may be acted upon goes to
`safe`, the stamp to write to `stamps`, secrets to delete to `doomed`. The bulk writes follow: to retract, `DeleteRUs` then
`DeleteSecrets`; to provision, `WriteSecrets`, `WriteRUs`, `DeleteSuperseded`. `UpsertAllObjects` and `DeleteAllObjects` work in
parallel and collect errors, so each has an outcome in which any subset was done and the message is nacked (`PartlyDone`).
Everything between two of these steps is open to the workers, the publisher and a crash.

**Objects.** A secret's key is its namespace, the tenant in its name and the nonce in its name, which is the message's or
derived from URL and token; its content a token, a URL, the authorized-namespace annotation, and whether it carries the operator's
labels. A RemoteUnleash has its reference, URL, stamp, finalizer, deletion mark and a status. An Update by the handler
carries no finalizers: it takes the worker's away, and ends an object that was being deleted (`Upserted`). Tokens are
numbers, one per life of the instance; the hash is the message without its status, so collisions are left out.

**The workers.** `Validate` is a reconcile up to the call to the server, `Connect` and `ConnectFails` the call with the status write,
then `Migrate`, `StampUrl`, `CreateBound`, `Repoint` and `DeleteLegacy`, each on what the reconcile read last (`mem`).
`woken` says that a reconcile is due: after a change of the spec (`GenerationChangedPredicate`: an annotation alone does not count),
after an error, a missing secret or a success, not after a refusal by validation.

**The publisher.** `ReconcileSecrets`, `Publish` (the message first, the hash second; the record may fail), `SayGoodbye` (best
effort), `FinishDeletion`, `DeletionFails`. Messages of other publishers under the same key come in through `OtherPublisher`.

**The abstraction.** `Placement` knows the log and, for each namespace, whether the instance is served there, at which URL and
with which stamp. `Put(i)` and `TakeAway(i)` say what message `i` may change; nothing else changes anything. A placement is a
RemoteUnleash that is not being deleted; secrets, handler, workers, migration and restarts are stuttering.

**Left out of it.** Several clusters (they share only the topic) and several instances (they share only the operator namespace, under other
names). A second handler in a replica that is not the leader. Publish times that are equal or out of the order of the key. The back-off of
the receive loop. Of the reads of one namespace, the Lists inside `federationSupersededAdminSecrets` (the secrets of the tenant's
and of the operator's namespace, and what refers to them) are one, `ReadSuperseded`. A forbidden call, which stops the subscription and with it the operator, is a crash. A RemoteUnleash or secret a tenant
edits or deletes itself.

## 3. Runs

`tlc -config <run>.cfg <module>`; each takes well under five minutes.

| Run | Instance | Shows |
|---|---|---|
| `machine` | 2 instances, 1 canary; specs with rollback, rollback override, canary + health checks, break glass; image 2 never works; any 2 disturbances of all 8 kinds | `TypeOK`, `BatchOnlyWhileRolling`, `RollbackLands` over every phase; `AssignsOnlyWhenSettled`: no new batch in a pass that saw an assigned instance unhealthy |
| `canary` | 3 instances, 1 canary, agreeing fleet, with and without rollback; 2 edits, timeouts, errors or crashes | `CanariesFirst`, `RollbackHasBaseline` |
| `rollback` | 2 instances, image 2 never works, automatic rollback; 3 timeouts, errors or crashes | `MaxParallelHolds` through retries and lost batches; under fairness `LeavesBrokenImage` |
| `convergence` | 3 instances, 1 canary, three strategies; 2 edits, crashes or restarts | under fairness `Converges` |
| `fleet_versions` | every fleet of 4 instances over 4 images, one without a version, versions not in the order of the names; 360 strategies | `FleetImageIsNewestOfMostCommon`, `RefusedForTheMany`, `BudgetCoversRollout` |
| `tokens` | one reachable Unleash instance, 3 specs, 6 disturbances | `RotationKeepsSecretWorking`, `GoneMeansClean` |
| `token_progress` | 2 instances, 3 specs, 5 disturbances of all kinds | `TypeOK`, `NoDuplicates`; under fairness `Settles`, `DeletionEnds` |
| `federation` | 2 namespaces, namespace-bound secrets; an instance created, edited between here and elsewhere (there with the operator's own namespace on its list), deleted; 3 disturbances of 8 kinds | `TypeOK`, `FindingsHold`, the refinement `ImplementsPlacement`, `RemovalApplies`; under fairness `FederationSettles`, `Connects` |
| `migration` | 3 namespaces, one missing, 3 kinds of legacy cluster; edits, deletion, other publishers, errors, crashes, redeployments with the other layout, 2 in all | `ImplementsPlacement`, `CredentialKept`; under fairness `MigrationSettles` |
| `fix_forward`, `removal_race`, `missing_namespace` | one disturbance or none | counterexamples, see below |

**Bounds.** Two instances are enough for one to be ahead of the other, three for a batch of two
with a third waiting or for a majority. Two or three disturbances fit the sequences the hazards
describe (an edit and a crash, a timeout and an error in the retry). `MaxRetries` is 1 instead of 5: the
cap is reached and passed. In federation three disturbances fit a creation or edit, the redelivery of an older message and a crash or partial write in its
handling; two namespaces let a bulk write be partial; the third in `migration` is the one that does not exist. Token runs take five or six, since creation and deletion count too. Image
numbers stand in the order of their versions in `MCRollout`, and not in `MCFleetVersions`, where that
order is the question. No symmetry is used: canaries and initial fleets tell instances apart.

**Deadlock** is checked in the rollout runs: a channel always has another pass. It is not in the
token runs, where the object may be gone for good, nor in federation, where nothing may be left to do.

**What is excluded, and why.** `MaxParallelHolds` is checked without restarts, faults and joins,
which put instances out of health that the rollout had finished with; `AssignsOnlyWhenSettled` states what remains true
then. `AssignsOnlyWhenSettled` is about the image the pass asked `recoverActiveBatch` about (`seen.target`), not one edited in
after the question: with `spec.image` moved to another image before the question and back after it, in one pass, a batch
of the first image is assigned although nobody asked about the instances in flight to it. `CanariesFirst` is
checked on a fleet that agrees on an image, and without restarts of the canary, which can happen
between the verdict and the assignment. `RollbackLands` is judged against the previous image and every
override an operator may write, not only the override of the moment: that one may be edited after the instances were found
ready, and an instance created again may have resolved nothing yet. `Converges` is without joins: in a canary channel an
instance that joins on the target is sent back and forth if it polls slowly. `RotationKeepsSecretWorking` and `GoneMeansClean` are
without administrators deleting tokens in Unleash, the second also without 404s and 405s of another
cause and without instances that go away. `BudgetCoversRollout` is about rollouts without canaries. `RemovalApplies` and
`FederationSettles` are checked without the migration, which breaks the first (see `removal_race`), and the second
without lost removals and foreign messages. `RemovalApplies` is about retractions that carry a token: one without
has no credential to be recognised by, and what it names is left alone. `MigrationSettles` is about credentials that work, and secrets that carry no URL or the right one. The specs of `migration` name
both existing namespaces: a retraction of one of two objects on a shared legacy secret deletes the secret of both, below.

**Fairness.** `WF(Reconcile)`: every pass returns a requeue, or is woken by a watched event; the
one state that asks for neither (Failed with nothing left to try) is one where a pass changes nothing.
`WF` for each instance: an instance on a channel requeues itself to poll it. `SF` of `PerformHealthChecks`
and `FailedRetry`: the settle delay, the HTTP endpoint and the
backoff may hold a pass back, but not every time. In federation, `WF(Handle)`: Pub/Sub redelivers until a message is
acknowledged; `WF` of the publisher and of each worker: controller-runtime requeues after an error, and after a success
periodically. For tokens, `WF(Reconcile)` (an error or an
hour requeues) and that time passes.

### Where the code does not do what the repository says

Three runs state a sentence of the repository and end in a counterexample; `PROJECT.json` quotes
the sentences with their lines.

- `fix_forward`. An image fails on the canary; the operator points `spec.image` at one that works. The canary phase
  assigns it and, in the same pass, asks `terminalInstanceFailure`, which finds the canary's condition from
  the first image: conditions are not tied to an image, and a change of the channel does not change the
  instance's generation. The rollout fails, the working image is recorded as the failed one, and the channel
  stays Failed while the canary runs the working image. With rollback enabled and a fleet that is all on the
  broken image, that image has become the baseline, and the channel rolls back to it again and again.
- `removal_race`. The handler of a retraction reads the RemoteUnleash; the migration repoints the object and deletes the
  legacy secret; the handler looks for the secret it read of, finds it missing, takes that for a reason never to delete, and
  acknowledges the message. The RemoteUnleash stays, pointing at a server that is gone. No fault is needed, only the migration
  running when an instance is deleted.
- `missing_namespace`. In the tenant layout the admin secret of a namespace that does not exist is written before its RemoteUnleash, and
  its NotFound is a retriable error. The RemoteUnleash's would have been skipped. The message and all later ones of the instance
  are held up for as long as the namespace is missing.

Other behaviours the model shows, which explain why the properties are stated as they are:

- An edit of `spec.image` between the count and the assignment of one pass: the batch's `TargetImage` is the new
  image, its instances were assigned the old one; or, if the new image is older, it is assigned although the
  pass had checked for a downgrade, against the old one.
- An edit of `spec.rollback.previousImage` between the assignment of a rollback and its last write: the rollback is reported
  complete on the image of before the edit, and the write forgets the previous image. If instances joined meanwhile, the fleet may
  be split with no baseline to roll back to.
- A rollback override that names an image newer than the target, over a fleet that is split: Idle then refuses the target as a
  downgrade, and an instance still on the broken image stays there.
- An API error after the last batch was assigned: the retry goes back to Idle, which finds every instance "up to date" by its
  image, broken or not, and stays.
- An instance deleted between the readiness verdict and the health check of one pass fails the rollout.
- An edit between a failure and the next pass: `failedImage` is an image nobody ever rolled out.
- A timed out rollout resumes with a canary phase that sends migrated instances back to the previous image.
- Over a fleet without a common image there is no previous image, and Canary gives everybody the target.
- After a completed rollback Idle starts the rollout that failed again, for as long as `spec.image` names it.
- An instance without an assignment takes the target from the Rolling fallback when the rest of the fleet is
  on it already, before a batch gives it to it.
- A 404 for one token (someone else deleted it) ends the cleanup of an ApiToken with others left.
- Three instances, one of them ahead of the target: once the first of the others is upgraded, every image runs once,
  `fleetImage` gives the tie to the newest, and the last upgrade is refused for good.
- The upgrade budget counts batches of the whole fleet; a canary phase can need one more than that (two instances, one a canary,
  `maxParallel` 2: two batches, a budget for one), which only the floor and the slack in the allowance cover.
- The spec of an ApiToken is moved to another Unleash instance before it is deleted: the token in the first one survives.
- A namespace taken out of `spec.federation.namespaces` keeps its RemoteUnleash: no later message names it.
- An instance whose removal was lost and that is created again has a new token; the clusters that hold the old one refuse
  everything said about it.
- A namespace created after the message that names it was handled is not provisioned until the instance is published again.
- The handler's Update drops the finalizer of the RemoteUnleash, so until its next reconcile a deletion takes effect
  at once; and it completes the deletion of an object that was being deleted, which the message meant to keep.
- A retraction deletes a legacy secret that another RemoteUnleash still refers to; provisioning asks first.
- After a crash between the deletion of RemoteUnleash objects and that of their secrets, nothing leads to the secrets any
  more. After one between repointing and deleting in the migration, the tenant keeps a readable copy of the token.
- `StringSliceEquals` finds `[p p]` equal to `[p q]`; a token for the second passes for a spec with the first.

## 4. Proofs

`tlapm <module>.tla`. The theorems hold for any fleet, any set of specs, any images and any number of
disturbances. They rest on the modules' named assumptions, which TLC evaluates in every run: the fleet is
finite, constants have their types, bounds are naturals. Where a theorem needs more, its `ASSUME` says so and this section why.

`Rollout_proofs`:

- `TypeCorrect`: `TypeOK` is inductive by itself. The work is in the counts (`CountBound`: a subset of a
  finite fleet is no larger) and in the images the helpers return (`OperatorTypes`). The Boolean-valued
  variables are proved apart from the rest, as the provers want it.
- `BatchesEndWithRolling`: inductive given `TypeOK`; each action either leaves the batch, drops it, or is a
  step of Rolling that stays there or fails.
- `RollbacksHaveBaselines`: inductive given `TypeOK`. The cases that matter: `releasePhaseOnFailure` enters
  RollingBack only with a baseline, `TrackPreviousImage` cannot run there, and `RollbackDone`, which
  clears the baseline, leaves the phase in the same write.

`ApiTokens_proofs`:

- `TypeCorrect`: `TypeOK` needs `IdsUnique` (every token older than `nextId`, ids unique). It says that a pass that writes
  the Secret or deletes superseded tokens has a token in hand.
- `TokensDoNotPileUp`: `NoDuplicates` and `FrozenMeansOne` are not inductive. The strengthening is
  `CreatesFresh`: a pass that is about to create has no token at its instance that would do. It holds because
  only the worker creates; and a new token passes for its own spec (`IsEqualReflexive`).
- `RotationIsSafe`: needs that what is to be deleted spares the current token (`SparesCurrent`), that the current
  token is live until the pass ends (`CurrentIsLive`), and that only deleted objects are finalized
  (`FinalizesDeleted`). Assumes nobody else deletes tokens.
- `CleanupIsComplete`: `AtHome` (all tokens are at the one instance) and `PurgesAll` (a purge has yet
  to delete all that is left; a release before the deadline finds nothing). Assumes that the instance stays
  reachable, never refuses, and is the only one the specs name; a token left in an instance the spec named before is not looked for.

`Federation_proofs`:

- `TypeCorrect`: `TypeOK` is inductive, with the assumption that what older operators left has its types. It says that the handler
  always has a message in hand and that no acknowledgement runs past the log.
- `FindingsAlwaysHold`: `FindingsHold` is inductive given `TypeOK`. The argument: workers and migration move references
  and finalizers, and can only remove an object, never change a URL or a stamp (`Harmless`); the publisher only makes the log
  longer (`Longer`); and only the handler writes stamps, one message at a time.
- `Refinement`: `Spec => ImplementsPlacement`. Given `FindingsHold`, the handler's writes are `Put(next)` and `TakeAway(next)` steps,
  publications are `Say`, and every other step leaves log and placements as they are. `FindingsHold` is what makes it go
  through: without it the writes, which happen steps after the checks, could be anything.

`RolloutPromises_proofs`, on top of `Rollout_proofs`:

- `BatchesWait` (`AssignsOnlyWhenSettled`), without hypotheses: `Settled` says that the answer of `recoverActiveBatch` still stands
  when the batch is assigned, steps later, because only the worker writes assignments and the pass keeps its own list.
- `RollbacksLand` (`RollbackLands`), without hypotheses. Assignment, verdict and last write of a rollback are steps of their own,
  so the property needs an invariant: `Returning` says that from the assignment on the instances of the pass are assigned an
  image a rollback goes to, and that after the verdict they run one and cannot get off it, because what they pull is
  what they are assigned (`FleetReturns`).
- `RolloutsAreNarrow` (`MaxParallelHolds`). The bound itself is one conjunct. It is kept by `BatchAssign` because before an assignment
  nobody is in flight (`Landed`), which the pass can only conclude from its list if the list misses nobody (`Listed`) and what it
  shows of finished instances is still true (`StillHealthy`). Hypotheses: nothing restarts, fails or joins by itself (`Calm`), operators
  do not edit the image (`OneImage`), and not `maxParallel`, with canaries off and no override that names the image itself (`OneWidth`).
  Timeouts, API errors, crashes, rollbacks, other edits and instances that leave are all allowed, any number of times.
- `CanariesGoFirst` (`CanariesFirst`). `CanariesAhead` follows the canaries: assigned when counted in Canary, healthy on the image from
  the verdict to the end of Rolling. `Baselined` keeps the rest back: without a previous image `getExpectedImageForInstance` would give
  everybody the target, so there must be one in Canary, Rolling and RollingBack, and a fleet that has lost it must be on one image, from
  which the next is captured. Hypotheses: `Calm`, `OneImage`, canaries in every spec and no override (`AlwaysCanary`), a fleet
  that starts on one image (`Agreed`).

`canary` and `rollback` are instances of the hypotheses of `CanariesGoFirst` and `RolloutsAreNarrow`; section 3 says what goes wrong without them.

`FleetVersions_proofs`:

- `BudgetsCoverRollouts`, `FleetImageIsRight`, `RefusesForTheMany`. `FleetImage` and `RolloutTime` are recursive functions, and the library's
  induction rules cannot be used with the provers at hand. Instead a least counterexample is taken, from the well-foundedness
  of the naturals and of the finite sets, first-order facts the provers can use. For each recursion a closed form is shown
  to solve its equation (so the `CHOOSE` behind the function has something to choose), and then every solution is shown to agree
  with it. The budget is for any `maxParallel` and any durations a strategy may hold: `StrategyNumbers` bounds the sums, `Quotient` and
  `OneBatchLess` relate the rounded-up division to one batch more. For `FleetImage` the
  closed form is `Wins`: one of the most common images, older than none of them; a tie is broken by the order of the references only
  where versions cannot tell. Exactly one image wins (`OneWins`), and a round of the loop keeps it so (`RoundWins`), because
  `OlderThan` is a strict order that is total up to ties on images with a version (`OlderThanOrder`).

`FederationPromises_proofs`, on top of `Federation_proofs`:

- `RemovalsApply` (`RemovalApplies`). `Clearing`: during a retraction whatever is still owed is yet to be examined, being examined or
  found safe, and the reference the handler holds is the object's. `Resting`: no worker is ever in the migration. Hypothesis `NoMigration`:
  the legacy layout is not allowed, or the operator never runs with namespace-bound secrets. `removal_race` shows that it is needed.
- `CredentialsAreKept` (`CredentialKept`), with the migration on. Every write of a secret or a reference must leave the token
  of every object that stays, and three parties write. `OwnRef`: an object refers to a secret named after its own namespace, which is there.
  `MigrationSound`: what the migration has copied is what the object's secret holds, and it deletes only what the object no longer
  refers to. `ReadSound` and `SafeSound`: what the handler judged by is the object's token, moved or not, from the comparison
  (`Cleared`) through the look-ups that follow it until the writes are done.
  `DoomedSound` and `Tidy`: what is to be deleted is nobody's. Hypothesis `OwnSecrets`: what older operators left has one secret for each
  object. In the shared legacy layout, which the run `migration` covers, retracting one of two objects deletes the secret of both.

Only model-checked: liveness (`Converges`, `LeavesBrokenImage`, `Settles`, `DeletionEnds`, `FederationSettles`, `Connects`,
`MigrationSettles`), which is out of the prover's reach; and `CredentialKept` where objects share a secret. Every invariant and every
action property of a run is stated by a theorem. `FrozenMeansOne` (`ApiTokenUpdateEnabled` off)
is proved, as part of `TokensDoNotPileUp`, and has no run of its own.

## 5. Not modelled

- *Deletion of a ReleaseChannel* (`handleDeletion`): it lists referencing instances and then releases the finalizer; an instance
  that is created in between is left without its channel. Nothing stops an instance from naming a channel that does not exist,
  before or after, so there is no invariant to state about the pair; the model's channel is one that stays.
- *Two ApiTokens of one name* that share an Unleash, and an informer cache that lags behind the controller's own writes.
- *The other objects of an instance* (Service, Ingress, NetworkPolicy, ServiceMonitor): manifests built from the spec, which
  no controller reads back.
- *Configuration, start-up, traces, metrics, generated code*: no state a controller acts upon.

## 6. Plan

Done: versions, the rollout with all its phases, the upgrade budget, the ApiToken, federation with RemoteUnleash and migration,
its abstract specification and refinement, and the theorems above. Next, in order:

1. *An abstract rollout* (instances move in waves, a wave starts when the last one is healthy) and `Rollout` as its refinement.
2. *Two ApiTokens of one name* in one Unleash; a lagging cache in the rollout's `Observe`.
