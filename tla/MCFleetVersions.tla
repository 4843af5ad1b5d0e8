-------------------------- MODULE MCFleetVersions --------------------------
(***************************************************************************)
(* What a channel concludes from its instances, over every fleet of a few  *)
(* instances: which image it runs, and how long a rollout to it may take.  *)
(* Instances report one image after another in any order.                  *)
(***************************************************************************)
EXTENDS FleetVersions, UpgradeBudget

CONSTANTS Instances, Strategies

ASSUME InstancesAssumption == IsFiniteSet(Instances)
ASSUME StrategiesAssumption == Strategies \subseteq StrategyType

\* Versions in an order that is not the one the references sort in, and among them
\* an image that cannot be ordered.
MCVersion == <<3, 0, 1, 4>>

VARIABLES resolved, target

Init == resolved = [u \in Instances |-> NoImage] /\ target \in Images

Report(u, i) == resolved' = [resolved EXCEPT ![u] = i] /\ UNCHANGED target

Next == \E u \in Instances, i \in Images : Report(u, i)

Spec == Init /\ [][Next]_<<resolved, target>>

Count(i) == CountOn(i, Instances, resolved)

\* fleetImage finds, in one pass over the sorted images, the image most instances
\* run, and of equally common ones none that is older than another: whatever
\* instances report, and with images among them that cannot be ordered.
FleetImageIsNewestOfMostCommon ==
    LET best     == FleetImage(Instances, resolved)
        deployed == DeployedImages(Instances, resolved)
    IN  /\ best = NoImage <=> deployed = {}
        /\ \A i \in deployed :
              /\ Count(i) <= Count(best)
              /\ Count(i) = Count(best) => ~OlderThan(best, i)

\* downgradeFrom protects the many from the few: a target is only refused when
\* the instances that run something newer than it are at least as many as those
\* that run any one image that is not newer.
RefusedForTheMany ==
    DowngradeFrom(target, FALSE, Instances, resolved) =>
        \A i \in Images :
            ~OlderThan(target, i) =>
                Count(i) <= Cardinality({u \in Instances : OlderThan(target, resolved[u])})

\* The fleet as far as it has shown up
Listed == Cardinality({u \in Instances : resolved[u] # NoImage})

\* Unset, absent, ordinary and very patient settings
MCStrategies ==
    [maxParallel : -1 .. 3, settle : {Unset, 0, 4}, verify : {Unset, 0, 50, 100},
     interval : {Unset, 0}, pinned : {Unset, LegacyDefault, 6}]

\* What a healthy rollout without canaries may need, batch after batch: its allowance
\* and a wake-up each, and a wake-up to find that none is left.
RolloutTime(instances, s) ==
    LET left[n \in 0 .. instances] ==
            IF n = 0
            THEN WakeUp
            ELSE BatchAllowance(s) + WakeUp + left[IF n > Parallel(s) THEN n - Parallel(s) ELSE 0]
    IN  left[instances]

\* upgradeTimeBudget never fails a rollout that is merely slow: whatever the size of
\* the fleet and of the batches, a budget nobody pinned is what the batches may take
\* one after the other, unless it is the ceiling; and it is never less than it used
\* to be.
BudgetCoversRollout ==
    \A s \in Strategies :
        ~Pinned(s) =>
            /\ RolloutTime(Listed, s) <= Budget(Listed, s) \/ Budget(Listed, s) = Ceiling
            /\ Budget(Listed, s) >= Floor
=============================================================================
