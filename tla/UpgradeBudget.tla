--------------------------- MODULE UpgradeBudget ---------------------------
(***************************************************************************)
(* How long a rollout may take: batchAllowance and upgradeTimeBudget of    *)
(* internal/controller/releasechannel_controller.go, in units of half a    *)
(* minute, the finest any of the defaults uses.                            *)
(***************************************************************************)
EXTENDS Integers

Unset == -1
OrElse(duration, default) == IF duration = Unset THEN default ELSE duration

Floor == 20              \* releaseChannelDefaultMaxUpgradeTime
LegacyDefault == 20      \* releaseChannelLegacyDefaultMaxUpgradeTime
Ceiling == 240           \* releaseChannelMaxDerivedUpgradeTime
WakeUp == 1              \* releaseChannelReconciliationAllowance

\* What an operator may ask for: a number of parallel upgrades, and durations that may
\* be left unset
Durations == Nat \cup {Unset}
StrategyType ==
    [maxParallel : Int, settle : Durations, verify : Durations, interval : Durations,
     pinned : Durations]

BatchAllowance(s) == OrElse(s.settle, 1) + OrElse(s.verify, 10) + OrElse(s.interval, 1)

Parallel(s) == IF s.maxParallel <= 0 THEN 1 ELSE s.maxParallel

\* mutant of Batches: the last, smaller batch is not counted
BatchesRoundedDown(instances, s) == instances \div Parallel(s)
Batches(instances, s) == (instances + Parallel(s) - 1) \div Parallel(s)

Clamped(budget) ==
    IF budget < Floor THEN Floor ELSE IF budget > Ceiling THEN Ceiling ELSE budget

\* A stored legacy default counts as unset; anything else is taken as it is.
Pinned(s) == s.pinned \notin {Unset, LegacyDefault}
Budget(instances, s) ==
    IF Pinned(s)
    THEN s.pinned
    ELSE LET batches == Batches(instances, s)
         IN  Clamped(batches * BatchAllowance(s) + (batches + 1) * WakeUp)
=============================================================================
